---- MODULE Spec2Model ----
(***************************************************************************)
(* ChatList: the provider request gateway.                                 *)
(*                                                                         *)
(*   src/network.py   BaseAPIClient (credential lookup, error classifier,  *)
(*                    retry loop), the dialect clients, create_api_client  *)
(*   src/main.py      RequestWorker.run (dispatch of one prompt to a list  *)
(*                    of providers, signals finished and progress)         *)
(*                                                                         *)
(* Texts are sequences of string fragments, so that concatenation is \o    *)
(* and "s in text" is membership of a fragment.  The user-visible messages *)
(* of the source are Russian; the module language admits ASCII only, so    *)
(* each message is written in English next to the source line it renders.  *)
(***************************************************************************)
EXTENDS Integers, Sequences, FiniteSets, TLC

(* ------------------------------ bounds --------------------------------- *)

\* Parts (scheme, host, path segments) of a base URL handed to
\* create_api_client.
MaxUrlParts == 3

\* Lines of a model's response handed to the parsers of the prompt improver.
MaxLines == 3

\* Numbered lines of a well-formed combined response.
MaxNumbered == 3

\* Largest number of variants that is asked for.
MaxBound == 4

\* Clicks of the user in the main window and its dialogs (sending a prompt,
\* clearing, loading a prompt, changing a model); typing is not counted.
MaxUserActions == 3

\* Number of rows of the models table at the start (ids 1..MaxProviders).
MaxProviders == 2

\* Number of rows the models table can grow to by add_model.
MaxModels == MaxProviders + 1

\* Largest value of the max_retries setting that is explored.
MaxRetries == 3

\* How far below zero the max_retries setting is explored: the setting is
\* read with int() and range() is empty for a negative value.
NegRetries == 1

(* --------------------------- small helpers ----------------------------- *)

\* str(n) for the integers that appear in messages.
StrOf(n) ==
    CASE n = -2 -> "-2" [] n = -1 -> "-1" [] n = 0 -> "0" [] n = 1 -> "1" [] n = 2 -> "2" [] n = 3 -> "3"
      [] n = 4 -> "4" [] n = 5 -> "5" [] n = 6 -> "6" [] n = 7 -> "7"
      [] n = 8 -> "8" [] n = 9 -> "9" [] n = 10 -> "10"
      [] n = 30 -> "30" [] n = 100 -> "100"
      [] n = 200 -> "200" [] n = 400 -> "400" [] n = 401 -> "401"
      [] n = 403 -> "403" [] n = 404 -> "404" [] n = 429 -> "429"
      [] n = 500 -> "500" [] n = 503 -> "503"
      [] OTHER -> "n"

\* "frag in text" on fragment granularity.
Contains(text, frag) == \E i \in 1..Len(text) : text[i] = frag

\* 2 ** k
RECURSIVE Pow2(_)
Pow2(k) == IF k <= 0 THEN 1 ELSE 2 * Pow2(k - 1)

\* text[:n] of a body whose raw text is named by b.text and has b.len chars.
Truncate(b, n) == IF b.len > n THEN <<b.text, "[:", StrOf(n), "]">> ELSE <<b.text>>

\* Python None for last_error, and its rendering inside an f-string.
NoneVal == <<>>
FmtOpt(v) == IF v = NoneVal THEN <<"None">> ELSE v

(* ------------------------- provider descriptors ------------------------ *)

\* Names of the environment variables that hold API keys.
CredNames == {"OPENROUTER_API_KEY", "OPENAI_API_KEY"}

\* One row of the models table (models.Model).  Names are chosen so that
\* ORDER BY name (db.get_active_models) is the descending order of the ids.
DbModel(id) ==
    [ id      |-> id,
      name    |-> CASE id = 1 -> "mistral-large" [] id = 2 -> "llama-3"
                    [] id = 3 -> "gpt-4o" [] OTHER -> "claude",
      api_url |-> CASE id = 1 -> <<"https://", "openrouter.ai", "/api/v1/chat/completions">>
                    [] id = 2 -> <<"https://", "api.openai.com", "/v1/chat/completions">>
                    [] id = 3 -> <<"https://", "api.groq.com", "/openai", "/v1/chat/completions">>
                    [] OTHER -> <<"https://", "llm.example.org", "/v1/chat/completions">>,
      api_id  |-> IF id % 2 = 1 THEN "OPENROUTER_API_KEY" ELSE "OPENAI_API_KEY" ]

\* models.get_active_models(): the active rows, ORDER BY name.
RECURSIVE ActiveModels(_)
ActiveModels(ids) ==
    IF ids = {} THEN <<>>
    ELSE LET m == CHOOSE i \in ids : \A j \in ids : j <= i
         IN  <<DbModel(m)>> \o ActiveModels(ids \ {m})

\* A URL is the sequence of its parts: the scheme, the host, path segments.
\* str.lower() of a part.
Lower(part) ==
    CASE part = "OpenRouter.ai" -> "openrouter.ai"
      [] part = "API.OpenAI.com" -> "api.openai.com"
      [] part = "/DeepSeek" -> "/deepseek"
      [] part = "Groq.com" -> "groq.com"
      [] OTHER -> part

\* The keywords of create_api_client that occur in a part, as written.
KeywordsIn(part) ==
    CASE part = "openrouter.ai" -> {"openrouter"}
      [] part = "api.openai.com" -> {"openai", "api.openai.com"}
      [] part = "/openai" -> {"openai"}
      [] part = "/deepseek" -> {"deepseek"}
      [] part = "api.groq.com" -> {"groq"}
      [] part = "groq.com" -> {"groq"}
      [] OTHER -> {}

\* Keywords that api_url.lower() contains (create_api_client tests them).
UrlKeywords(url) == UNION { KeywordsIn(Lower(url[i])) : i \in 1..Len(url) }

\* Variant: groq is tested before openai.
create_api_client_groqFirst(url) ==
    LET kw == UrlKeywords(url)
    IN  IF "openrouter" \in kw THEN "OpenRouterAPIClient"
        ELSE IF "groq" \in kw THEN "GroqAPIClient"
        ELSE IF "openai" \in kw \/ "api.openai.com" \in kw THEN "OpenAIAPIClient"
        ELSE IF "deepseek" \in kw THEN "DeepSeekAPIClient"
        ELSE "OpenAIAPIClient"

\* network.create_api_client: the client class chosen for a base URL.
create_api_client(url) ==
    LET kw == UrlKeywords(url)
    IN  IF "openrouter" \in kw THEN "OpenRouterAPIClient"
        ELSE IF "openai" \in kw \/ "api.openai.com" \in kw THEN "OpenAIAPIClient"
        ELSE IF "deepseek" \in kw THEN "DeepSeekAPIClient"
        ELSE IF "groq" \in kw THEN "GroqAPIClient"
        ELSE "OpenAIAPIClient"

(* ---------------------------- HTTP responses --------------------------- *)

\* A response body, described by what the code looks at.
\*   text, len   a name for the raw text and its length
\*   dumps       the length of json.dumps of the parsed value (it puts a
\*               blank after every ':' and ','), 0 when the text is not JSON
\*   empty       text.strip() is empty
\*   html        the stripped text starts with <!DOCTYPE, <html or <HTML
\*   marks       which of the substrings searched by _extract_error_from_html
\*               occur (digits verbatim, words in the lower-cased text)
\*   title       stripped content of <title>..</title> when it is not empty
\*               and shorter than 100 characters, "" otherwise
\*   json        "invalid", or the shape of the parsed value:
\*                 "chat"          {choices:[{message:{content:<str>}}]}
\*                 "chat_null"     the same with content null
\*                 "chat_broken"   {choices:[{}]}
\*                 "choices_empty" {choices:[]}
\*                 "dict"          an object without choices, error, message
\*                 "error_obj"     {error:{message:<str>}}
\*                 "error_null"    {error:{message:null}}
\*                 "message"       {message:<str>}
\*                 "list", "number"  a value that is not an object
\*   msg         the content of an answer, or the message of an error body
Body(text, len, dumps, empty, html, marks, title, json, msg) ==
    [ text |-> text, len |-> len, dumps |-> dumps, empty |-> empty, html |-> html,
      marks |-> marks, title |-> title, json |-> json, msg |-> msg ]

EmptyBody    == Body("", 0, 0, TRUE, FALSE, {}, "", "invalid", <<>>)
BlankBody    == Body("  \n", 3, 0, TRUE, FALSE, {}, "", "invalid", <<>>)
Html404      == Body("<html>404 Not Found</html>", 26, 0, FALSE, TRUE, {"404", "not found"}, "", "invalid", <<>>)
Html401      == Body("<!DOCTYPE html>Unauthorized", 27, 0, FALSE, TRUE, {"unauthorized"}, "", "invalid", <<>>)
Html403      == Body("<html>403</html>", 16, 0, FALSE, TRUE, {"403"}, "", "invalid", <<>>)
Html500      == Body("<HTML>Internal Server Error", 27, 0, FALSE, TRUE, {"internal server error"}, "", "invalid", <<>>)
Html400      == Body("<html>Bad Request (400)", 23, 0, FALSE, TRUE, {"bad request", "400"}, "", "invalid", <<>>)
HtmlTitle    == Body("<html><title>Maintenance</title>", 32, 0, FALSE, TRUE, {}, "Maintenance", "invalid", <<>>)
HtmlBare     == Body("<html><body>oops</body></html>", 30, 0, FALSE, TRUE, {}, "", "invalid", <<>>)
HtmlLowerDoctype == Body("<!doctype html><html>404</html>", 31, 0, FALSE, FALSE, {"404"}, "", "invalid", <<>>)
NonJsonBody  == Body("upstream gateway says no", 24, 0, FALSE, FALSE, {}, "", "invalid", <<>>)
LongTextBody == Body("long plain text", 250, 0, FALSE, FALSE, {}, "", "invalid", <<>>)
ChatBody     == Body("{choices:[{message:{content:answer}}]}", 38, 41, FALSE, FALSE, {}, "", "chat", <<"answer">>)
ChatEchoBody == Body("{choices:[{message:{content:Invalid API key}}]}", 47, 50, FALSE, FALSE, {}, "", "chat", <<"Invalid API key">>)
ChatNullBody == Body("{choices:[{message:{content:null}}]}", 36, 39, FALSE, FALSE, {}, "", "chat_null", <<>>)
NoChoices    == Body("{id:1}", 6, 7, FALSE, FALSE, {}, "", "dict", <<>>)
EmptyChoices == Body("{choices:[]}", 12, 13, FALSE, FALSE, {}, "", "choices_empty", <<>>)
ErrObjBody   == Body("{error:{message:Model not found}}", 33, 35, FALSE, FALSE, {"not found"}, "", "error_obj", <<"Model not found">>)
ErrObjCode   == Body("{error:{message:Error 404: no endpoint}}", 40, 43, FALSE, FALSE, {"404"}, "", "error_obj", <<"Error ", "404", ": no endpoint">>)
MessageBody  == Body("{message:Server overloaded}", 27, 28, FALSE, FALSE, {}, "", "message", <<"Server overloaded">>)
ErrObjNull   == Body("{error:{message:null}}", 22, 24, FALSE, FALSE, {}, "", "error_null", <<>>)
BrokenChoice == Body("{choices:[{}]}", 14, 15, FALSE, FALSE, {}, "", "chat_broken", <<>>)
ListBody     == Body("[1, 2]", 6, 6, FALSE, FALSE, {}, "", "list", <<>>)
NumberBody   == Body("5", 1, 1, FALSE, FALSE, {}, "", "number", <<>>)
EdgeDict     == Body("{a:1,b:xxx...}", 200, 203, FALSE, FALSE, {}, "", "dict", <<>>)
PaddedBody   == Body("  upstream gateway says no\n", 27, 0, FALSE, FALSE, {}, "", "invalid", <<>>)
BigDict      == Body("{data:[...]}", 300, 320, FALSE, FALSE, {}, "", "dict", <<>>)

\* The shapes that json.loads turns into a dict.
DictShapes == { "chat", "chat_null", "chat_broken", "choices_empty", "dict",
                "error_obj", "error_null", "message" }

\* One outcome of requests.post: an exception of the transport, or a response.
Exc(e) == [ exc |-> e, status |-> 0, ctype |-> "", body |-> EmptyBody ]
Resp(status, ctype, body) == [ exc |-> "none", status |-> status, ctype |-> ctype, body |-> body ]

JSON == "application/json"
HTML == "text/html; charset=utf-8"

HTML_MIXED == "Text/HTML; Charset=UTF-8"

\* The Content-Type values whose lower case contains 'text/html'.
HtmlContentTypes == { "text/html", "text/html; charset=utf-8", "Text/HTML; Charset=UTF-8" }

TimeoutExc    == Exc("Timeout")
ConnectionExc == Exc("ConnectionError")
ValueExc      == Exc("ValueError")
RateLimited   == Resp(429, JSON, ErrObjBody)
Unauthorized  == Resp(401, JSON, ErrObjBody)
OkAnswer      == Resp(200, JSON, ChatBody)
OkNullContent == Resp(200, JSON, ChatNullBody)
OkNotJson     == Resp(200, JSON, NonJsonBody)

\* What an endpoint can do to one attempt of the retry engine.
Responses ==
    { TimeoutExc, ConnectionExc, ValueExc, RateLimited, Unauthorized,
      OkAnswer, OkNullContent, OkNotJson, Resp(200, JSON, ChatEchoBody),
      Resp(200, JSON, EmptyBody), Resp(200, HTML, BlankBody),
      Resp(200, HTML, ChatBody), Resp(200, HTML, HtmlBare),
      Resp(200, HTML_MIXED, ChatBody), Resp(200, JSON, HtmlLowerDoctype),
      Resp(200, JSON, Html404), Resp(200, JSON, Html401), Resp(200, JSON, HtmlTitle),
      Resp(200, JSON, LongTextBody),
      Resp(200, JSON, NoChoices), Resp(200, JSON, EmptyChoices),
      Resp(200, JSON, BrokenChoice), Resp(200, JSON, ListBody), Resp(200, JSON, NumberBody),
      Resp(200, JSON, ErrObjBody), Resp(200, HTML, ErrObjCode),
      Resp(500, JSON, ErrObjNull), Resp(500, JSON, ListBody), Resp(500, JSON, BigDict),
      Resp(404, HTML, Html404), Resp(404, JSON, ErrObjBody), Resp(404, JSON, ErrObjCode),
      Resp(403, HTML, Html403), Resp(400, JSON, Html400),
      Resp(500, HTML, Html500), Resp(500, JSON, MessageBody),
      Resp(503, JSON, NonJsonBody), Resp(500, JSON, LongTextBody),
      Resp(500, JSON, NoChoices), Resp(500, JSON, EdgeDict),
      Resp(500, JSON, BlankBody), Resp(503, JSON, PaddedBody) }

\* The endpoints of a batch of several providers.
BatchResponses ==
    { TimeoutExc, ConnectionExc, RateLimited, Unauthorized,
      OkAnswer, OkNullContent, OkNotJson,
      Resp(404, JSON, ErrObjBody), Resp(200, JSON, NoChoices) }

(* --------------------------- error classifier -------------------------- *)

\* The timeout setting (seconds) handed to every client.
timeout == 30

\* BaseAPIClient._extract_error_from_html
_extract_error_from_html(body) ==
    IF "404" \in body.marks \/ "not found" \in body.marks
        THEN <<"Probably a wrong API URL (404 Not Found)">>
    ELSE IF "401" \in body.marks \/ "unauthorized" \in body.marks
        THEN <<"Authentication problem (401 Unauthorized)">>
    ELSE IF "403" \in body.marks \/ "forbidden" \in body.marks
        THEN <<"Access denied (403 Forbidden)">>
    ELSE IF "500" \in body.marks \/ "internal server error" \in body.marks
        THEN <<"Server error (500 Internal Server Error)">>
    ELSE IF "bad request" \in body.marks \/ "400" \in body.marks
        THEN <<"Bad request (400 Bad Request)">>
    ELSE IF body.title # ""
        THEN <<"Page title: ", body.title>>
    ELSE <<"Check the API URL and the API key">>

\* "(status) message" unless the message already contains the status.
WithStatus(status_code, message) ==
    IF ~Contains(message, StrOf(status_code))
        THEN <<"(", StrOf(status_code), ") ">> \o message
        ELSE message

\* json.dumps(error_data, ensure_ascii=False)[:200]
DumpsTruncated(body) ==
    IF body.dumps > 200 THEN <<"json.dumps:", body.text, "[:", StrOf(200), "]">>
    ELSE <<"json.dumps:", body.text>>

\* _extract_error_from_json raises instead of returning: the test
\* "str(status_code) not in message" on a message that is null.
JsonErrorRaises(body) == body.json = "error_null"

\* BaseAPIClient._extract_error_from_json (where it returns)
_extract_error_from_json(body, status_code) ==
    IF body.json = "error_obj" THEN WithStatus(status_code, body.msg)
    ELSE IF body.json = "message" THEN WithStatus(status_code, body.msg)
    ELSE IF body.json \in DictShapes
        THEN <<"(", StrOf(status_code), ") ">> \o DumpsTruncated(body)
    ELSE <<"(", StrOf(status_code), ") ">> \o Truncate(body, 200)

\* response.text.strip() of a body: only BlankBody and PaddedBody have white
\* space around their text.
StrippedBody(body) ==
    IF body.empty THEN EmptyBody
    ELSE IF body = PaddedBody THEN NonJsonBody
    ELSE body

\* The stripped text starts with <!DOCTYPE, <html or <HTML.
StartsWithHtml(body) == body.html

\* Variant: only the body is examined.
IsHtml200_bodyOnly(resp) == StartsWithHtml(resp.body)

\* is_html of the status-200 branch: the Content-Type is consulted too.
IsHtml200(resp) == resp.ctype \in HtmlContentTypes \/ StartsWithHtml(resp.body)

(* ------------------------------ retry loop ----------------------------- *)

\* What one iteration of the loop of _make_request does with the outcome of
\* requests.post:
\*   ctl         "continue" (next iteration), "raise" (APIError leaves the
\*               loop) or "return" (the parsed JSON is returned)
\*   last_error  the value of last_error after the iteration
\*   sleep       seconds passed to time.sleep, 0 when it is not called
\*   exc, err    the class and the message of the exception raised
\*   data        what response.json() returned
Continue(last, secs) ==
    [ ctl |-> "continue", last_error |-> last, sleep |-> secs, exc |-> "none", err |-> <<>>, data |-> EmptyBody ]
RaiseExc(last, e, msg) ==
    [ ctl |-> "raise", last_error |-> last, sleep |-> 0, exc |-> e, err |-> msg, data |-> EmptyBody ]
Raise(last, msg) == RaiseExc(last, "APIError", msg)
Return_keepsTrying(last, body) == Continue(last, 0)
Return(last, body) ==
    [ ctl |-> "return", last_error |-> last, sleep |-> 0, exc |-> "none", err |-> <<>>, data |-> body ]

\* Variant: the handlers sleep after the final attempt too.
RetrySleep_always(attempt_, maxr) == 1

\* The sleep of the three retrying exception handlers: none after the final
\* attempt.
RetrySleep(attempt_, maxr) == IF attempt_ < maxr - 1 THEN 1 ELSE 0

\* except requests.exceptions.Timeout
OnTimeout(attempt_, maxr) ==
    Continue(<<"Request timeout after ", StrOf(timeout), "s">>, RetrySleep(attempt_, maxr))

\* except requests.exceptions.RequestException
OnRequestException(e, attempt_, maxr) ==
    Continue(<<"Network error: ", e>>, RetrySleep(attempt_, maxr))

\* except ValueError (the handler of the loop, not the one around response.json())
OnValueError(e, attempt_, maxr) ==
    Continue(<<"Response parsing error: ", e>>, RetrySleep(attempt_, maxr))

\* The message for a status-200 body that response.json() rejects.
NotJsonError(body) ==
    <<"Invalid response format from server (not JSON): ">> \o Truncate(body, 100)

\* Variant: a body that is not JSON falls through to the ValueError handler
\* of the loop and is retried.
Status200_retriesNotJson(resp, last) ==
    IF resp.body.empty THEN Raise(last, <<"Empty response from server">>)
    ELSE IF IsHtml200(resp)
        THEN Raise(last, <<"Server returned HTML instead of JSON. ">> \o _extract_error_from_html(resp.body))
    ELSE IF resp.body.json = "invalid"
        THEN Continue(<<"Response parsing error: ", "ValueError">>, 1)
    ELSE Return(last, resp.body)

\* The status-200 branch.
Status200(resp, last) ==
    IF resp.body.empty THEN Raise(last, <<"Empty response from server">>)
    ELSE IF IsHtml200(resp)
        THEN Raise(last, <<"Server returned HTML instead of JSON. ">> \o _extract_error_from_html(resp.body))
    ELSE IF resp.body.json = "invalid"
        THEN Raise(last, NotJsonError(resp.body))
    ELSE Return(last, resp.body)

\* Variant: status 401 is retried like a network error.
Status401_retries(last) == Continue(<<"Invalid API key">>, 1)

\* The status-401 branch.
Status401(last) == Raise(last, <<"Invalid API key">>)

\* Variant: a wait of one second after every 429.
RateLimitSleep_fixed(attempt_) == 1

\* Variant: linear instead of exponential backoff.
RateLimitSleep_linear(attempt_) == attempt_ + 1

\* The wait of the status-429 branch.
RateLimitSleep(attempt_) == Pow2(attempt_)

\* The status-429 branch: wait and continue; last_error is not assigned.
Status429(attempt_, last) == Continue(last, RateLimitSleep(attempt_))

\* Variant: a server error is retried like a network error.
StatusOther_retries(resp, last) ==
    IF resp.status >= 500
        THEN Continue(_extract_error_from_json(StrippedBody(resp.body), resp.status), 1)
    ELSE IF StartsWithHtml(resp.body)
        THEN Raise(last, <<"(", StrOf(resp.status), ") ">> \o _extract_error_from_html(StrippedBody(resp.body)))
    ELSE IF JsonErrorRaises(resp.body)
        THEN RaiseExc(last, "TypeError", <<"argument of type 'NoneType' is not iterable">>)
    ELSE Raise(last, _extract_error_from_json(StrippedBody(resp.body), resp.status))

\* The branch for every other status.
StatusOther(resp, last) ==
    IF StartsWithHtml(resp.body)
        THEN Raise(last, <<"(", StrOf(resp.status), ") ">> \o _extract_error_from_html(StrippedBody(resp.body)))
    ELSE IF JsonErrorRaises(resp.body)
        THEN RaiseExc(last, "TypeError", <<"argument of type 'NoneType' is not iterable">>)
    ELSE Raise(last, _extract_error_from_json(StrippedBody(resp.body), resp.status))

\* One iteration of the for loop of BaseAPIClient._make_request.
_make_request_step(resp, attempt_, maxr, last) ==
    IF resp.exc = "Timeout" THEN OnTimeout(attempt_, maxr)
    ELSE IF resp.exc = "ConnectionError" THEN OnRequestException(resp.exc, attempt_, maxr)
    ELSE IF resp.exc = "ValueError" THEN OnValueError(resp.exc, attempt_, maxr)
    ELSE IF resp.status = 200 THEN Status200(resp, last)
    ELSE IF resp.status = 401 THEN Status401(last)
    ELSE IF resp.status = 429 THEN Status429(attempt_, last)
    ELSE StatusOther(resp, last)

\* The APIError raised after the loop of _make_request.
ExhaustedError(maxr, last) ==
    <<"Request failed after ", StrOf(maxr), " attempts: ">> \o FmtOpt(last)

(* --------------------------- dialect clients --------------------------- *)

\* The result of a call as its caller sees it: a returned value (val, which
\* is None when isnone) or a raised exception (exc with message val).
Returned(text)  == [ exc |-> "none", isnone |-> FALSE, val |-> text ]
ReturnedNone    == [ exc |-> "none", isnone |-> TRUE, val |-> <<>> ]
Raised(e, text) == [ exc |-> e, isnone |-> FALSE, val |-> text ]

\* The message of the APIError for a body without a usable choices list.
BadShapeMessage(client) ==
    IF client = "OpenAIAPIClient" THEN <<"Invalid response format from API">>
    ELSE <<"Invalid API response format">>

\* Variant: the except clause lets every exception pass.
send_request_except_passes(client, e, msg) == Raised(e, msg)

\* The except clause of send_request: an APIError passes, anything else is
\* wrapped into an APIError.
send_request_except(client, e, msg) ==
    IF e = "APIError" THEN Raised("APIError", msg)
    ELSE IF client = "OpenAIAPIClient"
        THEN Raised("APIError", <<"Error sending request: ">> \o msg)
    ELSE Raised("APIError", <<"Request sending error: ">> \o msg)

\* <Dialect>APIClient.send_request, from the JSON that _make_request returned.
send_request_extract(client, data) ==
    IF data.json = "chat" THEN Returned(data.msg)
    ELSE IF data.json = "chat_null" THEN ReturnedNone
    ELSE IF data.json = "chat_broken"
        THEN send_request_except(client, "KeyError", <<"'message'">>)
    ELSE IF data.json = "number"
        THEN send_request_except(client, "TypeError", <<"argument of type 'int' is not iterable">>)
    ELSE send_request_except(client, "APIError", BadShapeMessage(client))

(* ------------------------------ dispatcher ----------------------------- *)

\* Variant: the error names the provider instead of the credential.
MissingKeyError_namesModel(model) == Raised("ValueError", <<"API key not found for ", model.name>>)

\* The ValueError of BaseAPIClient.__init__ for a missing API key.
MissingKeyError(model) == Raised("ValueError", <<"API key not found for ", model.api_id>>)

\* RequestWorker.run: the text of the finished signal for what
\* send_prompt_to_model returned or raised.  Emitting None for the str
\* argument of the signal raises TypeError inside the try block.  An
\* exception without a message is shown by the name of its type.
OutcomeText(res) ==
    IF res.exc = "none" /\ ~res.isnone THEN res.val
    ELSE IF res.exc = "none"
        THEN <<"Error: ", "finished.emit(): argument 4 has unexpected type 'NoneType'">>
    ELSE IF res.exc = "APIError" THEN res.val
    ELSE IF res.exc = "ValueError" THEN <<"Configuration error: ">> \o res.val
    ELSE IF res.val # <<>> THEN <<"Error: ">> \o res.val
    ELSE << "Error: ", res.exc >>

\* The signals of RequestWorker.
Finished(model, text) ==
    [ sig |-> "finished", id |-> model.id, name |-> model.name, api_id |-> model.api_id, text |-> text ]
Progress(current, total) == [ sig |-> "progress", current |-> current, total |-> total ]

(* -------------------------------- state -------------------------------- *)

VARIABLES
    env,          \* names of the environment variables that hold an API key
    server,       \* what the endpoints of this run can answer
    model_list,   \* RequestWorker.model_list
    max_retries,  \* RequestWorker.max_retries
    pc,           \* "run": at the head of the loop of run; "request": at the
                  \* head of the loop of _make_request; "done": run returned
    idx,          \* providers handled so far (idx of the loop of run)
    attempt,      \* the loop variable of _make_request
    last_error,   \* the local of _make_request
    events,       \* the signals emitted so far, in order
    posts,        \* posts[i]: HTTP requests sent for position i of the list
    resps,        \* outcomes of requests.post in the latest call of _make_request
    sleeps,       \* calls of time.sleep in the latest call: the attempt and the seconds
    raised        \* what send_prompt_to_model did for the latest provider

\* The variables of one RequestWorker and of the calls it makes.
worker == << env, server, model_list, max_retries, pc, idx, attempt, last_error,
             events, posts, resps, sleeps, raised >>

VARIABLES
    db_models,          \* models table: id -> "active", "inactive" or "absent"
    db_names,           \* models table: id -> the name of the model
    message_box,        \* the modal message box that is open, "none" without one
    db_prompts,         \* prompts table: the text of the prompt with id i
    db_results,         \* results table, in the order of saving
    prompt_text,        \* MainWindow.prompt_text (the stripped text)
    current_prompt_id,  \* MainWindow.current_prompt_id, 0 for None
    temp_results,       \* MainWindow.temp_results
    send_button,        \* MainWindow.send_button is enabled
    progress_bar,       \* MainWindow.progress_bar: visible, value, maximum
    status_bar,         \* the message of MainWindow.status_bar
    workers,            \* the RequestWorker threads started so far
    queue,              \* signals posted to the GUI thread and not yet delivered
    crashed,            \* the process was aborted
    user_actions        \* clicks of the user so far

\* The variables of the main window, the database and the event queue.
gui == << db_models, db_names, message_box, db_prompts, db_results, prompt_text, current_prompt_id,
          temp_results, send_button, progress_bar, status_bar, workers, queue,
          crashed, user_actions >>

VARIABLES
    fn,    \* the function that was called, "none" before the call
    args,  \* the arguments of the call
    ret    \* what the call returned or raised

\* A single call of a function that keeps no state.
call == << fn, args, ret >>

vars == << worker, gui, call >>

config == << env, server, model_list, max_retries >>

N == Len(model_list)

\* One saved result of the first model for the first prompt.
SavedRow == [ prompt_id |-> 1, model_id |-> 1, response |-> <<"answer">> ]

\* MainWindow.__init__ on a database that holds one prompt with one result.
InitWindow ==
    /\ db_names = [ i \in DOMAIN db_models |-> DbModel(i).name ]
    /\ message_box = "none"
    /\ db_prompts = << "saved prompt" >>
    /\ db_results = << SavedRow >>
    /\ prompt_text = ""
    /\ current_prompt_id = 0
    /\ temp_results = <<>>
    /\ send_button = TRUE
    /\ progress_bar = [ visible |-> FALSE, value |-> -1, maximum |-> 100 ]
    /\ status_bar = "Ready"
    /\ workers = <<>>
    /\ queue = <<>>
    /\ crashed = FALSE
    /\ user_actions = 0

\* No call of a stateless function is observed.
NoCall ==
    /\ fn = "none"
    /\ args = <<>>
    /\ ret = <<>>

\* The window is not part of the run of a single worker.
NoWindow ==
    /\ NoCall
    /\ db_models = [i \in 1..MaxProviders |-> "active"]
    /\ InitWindow

\* The worker was just started with a max_retries setting among budgets.
InitCall(budgets) ==
    /\ NoWindow
    /\ env \in SUBSET CredNames
    /\ max_retries \in budgets
    /\ pc = "run"
    /\ idx = 0
    /\ attempt = 0
    /\ last_error = NoneVal
    /\ events = <<>>
    /\ posts = [i \in 1..Len(model_list) |-> 0]
    /\ resps = <<>>
    /\ sleeps = <<>>
    /\ raised = Raised("none", <<>>)

\* What the initial conditions share: a setting from 0 to MaxRetries.
InitWorker == InitCall(0..MaxRetries)

\* MainWindow.send_prompt started a worker for the active models.
Init ==
    /\ \E ids \in SUBSET (1..MaxProviders) : ids # {} /\ model_list = ActiveModels(ids)
    /\ server = BatchResponses
    /\ InitWorker

\* A single provider, with an endpoint that can answer anything.
InitOne ==
    /\ \E id \in 1..MaxProviders : model_list = ActiveModels({id})
    /\ server = Responses
    /\ InitWorker

\* Variant: a configuration error is logged but not reported as an outcome.
Emit_dropsConfigError(res) ==
    /\ events' = IF res.exc = "ValueError"
                   THEN Append(events, Progress(idx + 1, N))
                   ELSE events \o << Finished(model_list[idx + 1], OutcomeText(res)),
                                     Progress(idx + 1, N) >>
    /\ raised' = res
    /\ idx' = idx + 1
    /\ pc' = IF idx + 1 = N THEN "done" ELSE "run"

\* Variant: an exception of one provider ends the loop of run.
Emit_abortsOnError(res) ==
    /\ events' = events \o << Finished(model_list[idx + 1], OutcomeText(res)),
                              Progress(idx + 1, N) >>
    /\ raised' = res
    /\ idx' = idx + 1
    /\ pc' = IF idx + 1 = N \/ res.exc # "none" THEN "done" ELSE "run"

\* Variant: a configuration error ends run.
Emit_stopsOnConfigError(res) ==
    /\ events' = events \o << Finished(model_list[idx + 1], OutcomeText(res)),
                              Progress(idx + 1, N) >>
    /\ raised' = res
    /\ idx' = idx + 1
    /\ pc' = IF idx + 1 = N \/ res.exc = "ValueError" THEN "done" ELSE "run"

\* Variant: the progress signal is emitted before the outcome.
Emit_progressFirst(res) ==
    /\ events' = events \o << Progress(idx + 1, N),
                              Finished(model_list[idx + 1], OutcomeText(res)) >>
    /\ raised' = res
    /\ idx' = idx + 1
    /\ pc' = IF idx + 1 = N THEN "done" ELSE "run"

\* The tail of one iteration of run: finished, then progress.
Emit(res) ==
    /\ events' = events \o << Finished(model_list[idx + 1], OutcomeText(res)),
                              Progress(idx + 1, N) >>
    /\ raised' = res
    /\ idx' = idx + 1
    /\ pc' = IF idx + 1 = N THEN "done" ELSE "run"

\* run enters an iteration: create_api_client and BaseAPIClient.__init__.
StartModel ==
    /\ pc = "run"
    /\ idx < N
    /\ resps' = <<>>
    /\ sleeps' = <<>>
    /\ attempt' = 0
    /\ last_error' = NoneVal
    /\ IF model_list[idx + 1].api_id \notin env
          THEN Emit(MissingKeyError(model_list[idx + 1]))
          ELSE /\ pc' = "request"
               /\ UNCHANGED << events, raised, idx >>
    /\ UNCHANGED << config, posts, gui, call >>

\* One iteration of the loop of _make_request, with what follows it in
\* send_request and run when the loop is left.
Attempt ==
    /\ pc = "request"
    /\ attempt < max_retries
    /\ \E resp \in server :
         LET r == _make_request_step(resp, attempt, max_retries, last_error)
             client == create_api_client(model_list[idx + 1].api_url)
         IN  /\ posts' = [posts EXCEPT ![idx + 1] = @ + 1]
             /\ resps' = Append(resps, resp)
             /\ sleeps' = IF r.sleep > 0
                             THEN Append(sleeps, [after |-> attempt, secs |-> r.sleep])
                             ELSE sleeps
             /\ last_error' = r.last_error
             /\ IF r.ctl = "continue"
                   THEN /\ attempt' = attempt + 1
                        /\ UNCHANGED << events, raised, idx, pc >>
                   ELSE /\ attempt' = attempt
                        /\ IF r.ctl = "raise"
                              THEN Emit(send_request_except(client, r.exc, r.err))
                              ELSE Emit(send_request_extract(client, r.data))
    /\ UNCHANGED << config, gui, call >>

\* The loop of _make_request ran out of attempts.
Exhausted ==
    /\ pc = "request"
    /\ attempt >= max_retries
    /\ Emit(Raised("APIError", ExhaustedError(max_retries, last_error)))
    /\ UNCHANGED << config, attempt, last_error, posts, resps, sleeps, gui, call >>

Next == StartModel \/ Attempt \/ Exhausted

Spec == Init /\ [][Next]_vars

SpecOne == InitOne /\ [][Next]_vars

\* A single provider with any setting from -NegRetries to MaxRetries: int()
\* of the stored setting can be zero or negative.
InitBudget ==
    /\ \E id \in 1..MaxProviders : model_list = ActiveModels({id})
    /\ server = Responses
    /\ InitCall((0 - NegRetries)..MaxRetries)

SpecBudget == InitBudget /\ [][Next]_vars

\* Every call of time.sleep returns and every call of requests.post returns
\* or raises (it is given the timeout), so the thread always takes its next
\* step.
SpecFair == Init /\ [][Next]_vars /\ WF_vars(Next)

(* ------------------------------ main window ---------------------------- *)

\* models.get_active_models() as a set of ids.
ActiveIds == { i \in DOMAIN db_models : db_models[i] = "active" }

\* The names a model can be given in ModelDialog, and their order under
\* ORDER BY name.
ModelNames == { "gpt-4o", "llama-3", "mistral-large", "zzz" }
NameRank(name) ==
    CASE name = "gpt-4o" -> 1 [] name = "llama-3" -> 2
      [] name = "mistral-large" -> 3 [] OTHER -> 4

\* One row of the models table as models.Model.
ModelRow(id) == [DbModel(id) EXCEPT !.name = db_names[id]]

\* models.get_active_models(): the active rows of the table, ORDER BY name.
RECURSIVE get_active_models(_)
get_active_models(ids) ==
    IF ids = {} THEN <<>>
    ELSE LET m == CHOOSE i \in ids :
                    \A j \in ids : NameRank(db_names[i]) <= NameRank(db_names[j])
         IN  <<ModelRow(m)>> \o get_active_models(ids \ {m})

\* The text that stands for a deleted row of the prompts table (the ids of
\* the table are AUTOINCREMENT and never used again).
DeletedPrompt == "(deleted)"

\* The ids of the prompts in the table.
PromptIds == { i \in 1..Len(db_prompts) : db_prompts[i] # DeletedPrompt }

\* No modal message box keeps the user from the windows, and the process runs.
UserCanAct == ~crashed /\ message_box = "none"

\* The texts a worker emits for one provider: an answer or an error.
GuiOutcomes ==
    { OutcomeText(Returned(ChatBody.msg)),
      OutcomeText(Raised("APIError", <<"Invalid API key">>)) }

\* What the user can type into the prompt field.
PromptTexts == { "", "new prompt" }

\* db.get_results_by_prompt: the rows of a prompt, latest first.
RECURSIVE get_results_by_prompt(_, _)
get_results_by_prompt(rows, prompt_id) ==
    IF rows = <<>> THEN <<>>
    ELSE LET rest == get_results_by_prompt(Tail(rows), prompt_id)
         IN  IF Head(rows).prompt_id = prompt_id THEN Append(rest, Head(rows)) ELSE rest

\* The name shown for the model of a saved result.
SavedModelName(model_id) ==
    IF db_models[model_id] # "absent" THEN db_names[model_id] ELSE "Model ID: n"

\* The entry of temp_results made by load_saved_results_for_prompt.
SavedEntry(row) ==
    [ model_id |-> row.model_id, model_name |-> SavedModelName(row.model_id),
      api_id |-> "", response |-> row.response ]

\* MainWindow.load_saved_results_for_prompt: the new value of temp_results.
load_saved_results_for_prompt(prompt_id) ==
    LET saved == get_results_by_prompt(db_results, prompt_id)
    IN  [ i \in 1..Len(saved) |-> SavedEntry(saved[i]) ]

\* The thread w is running: it has not yet returned from run.
Running(w) == ~workers[w].returned

\* The user edits the prompt field.
TypePrompt ==
    /\ UserCanAct
    /\ \E t \in PromptTexts : t # prompt_text /\ prompt_text' = t
    /\ UNCHANGED << worker, call, db_names, message_box, db_models, db_prompts, db_results, current_prompt_id,
                    temp_results, send_button, progress_bar, status_bar, workers,
                    queue, crashed, user_actions >>

\* MainWindow.send_prompt, reached by a click on the enabled send button.
\* Replacing request_worker drops the only reference to the previous thread:
\* when that thread is still running the destructor of QThread may abort the
\* process.
send_prompt ==
    /\ UserCanAct
    /\ send_button
    /\ prompt_text # ""
    /\ ActiveIds # {}
    /\ user_actions < MaxUserActions
    /\ temp_results' = <<>>
    /\ IF current_prompt_id = 0
          THEN /\ db_prompts' = Append(db_prompts, prompt_text)
               /\ current_prompt_id' = Len(db_prompts) + 1
          ELSE UNCHANGED << db_prompts, current_prompt_id >>
    /\ send_button' = FALSE
    /\ progress_bar' = [ visible |-> TRUE, value |-> 0, maximum |-> Cardinality(ActiveIds) ]
    /\ status_bar' = "Sending to the models..."
    /\ workers' = Append(workers, [ model_list |-> get_active_models(ActiveIds),
                                    prompt |-> prompt_text, outcomes |-> 0,
                                    emitted |-> 0, returned |-> FALSE ])
    /\ IF workers # <<>> /\ Running(Len(workers))
          THEN crashed' \in BOOLEAN
          ELSE crashed' = FALSE
    /\ user_actions' = user_actions + 1
    /\ UNCHANGED << worker, call, db_names, message_box, db_models, db_results, prompt_text, queue >>

\* RequestWorker.run in the thread w, first half of an iteration: the call
\* of send_prompt_to_model ends and its outcome is posted to the GUI thread.
WorkerFinished ==
    /\ ~crashed
    /\ \E w \in 1..Len(workers) :
         /\ ~workers[w].returned
         /\ workers[w].outcomes = workers[w].emitted
         /\ workers[w].outcomes < Len(workers[w].model_list)
         /\ \E text \in GuiOutcomes :
              LET k == workers[w].outcomes + 1
              IN  queue' = Append(queue,
                     [ worker |-> w, signal |-> Finished(workers[w].model_list[k], text) ])
         /\ workers' = [workers EXCEPT ![w].outcomes = @ + 1]
    /\ UNCHANGED << worker, call, db_names, message_box, db_models, db_prompts, db_results, prompt_text,
                    current_prompt_id, temp_results, send_button, progress_bar,
                    status_bar, crashed, user_actions >>

\* RequestWorker.run, second half of an iteration: the progress is posted.
WorkerProgress ==
    /\ ~crashed
    /\ \E w \in 1..Len(workers) :
         /\ workers[w].outcomes = workers[w].emitted + 1
         /\ queue' = Append(queue,
                [ worker |-> w,
                  signal |-> Progress(workers[w].emitted + 1, Len(workers[w].model_list)) ])
         /\ workers' = [workers EXCEPT ![w].emitted = @ + 1]
    /\ UNCHANGED << worker, call, db_names, message_box, db_models, db_prompts, db_results, prompt_text,
                    current_prompt_id, temp_results, send_button, progress_bar,
                    status_bar, crashed, user_actions >>

\* RequestWorker.run returns after the last iteration and the thread ends.
WorkerReturn ==
    /\ ~crashed
    /\ \E w \in 1..Len(workers) :
         /\ ~workers[w].returned
         /\ workers[w].emitted = Len(workers[w].model_list)
         /\ workers' = [workers EXCEPT ![w].returned = TRUE]
    /\ UNCHANGED << worker, call, db_names, message_box, db_models, db_prompts, db_results, prompt_text,
                    current_prompt_id, temp_results, send_button, progress_bar,
                    status_bar, queue, crashed, user_actions >>

\* MainWindow.on_request_finished
on_request_finished(s) ==
    /\ temp_results' = Append(temp_results,
            [ model_id |-> s.id, model_name |-> s.name, api_id |-> s.api_id, response |-> s.text ])
    /\ IF Len(temp_results) + 1 >= Cardinality(ActiveIds)
          THEN /\ progress_bar' = [progress_bar EXCEPT !.visible = FALSE]
               /\ send_button' = TRUE
               /\ status_bar' = "All requests finished"
          ELSE UNCHANGED << progress_bar, send_button, status_bar >>

\* QProgressBar.setValue: a value outside the range 0..maximum of the bar is
\* ignored (unless the range is 0..0).
setValue(bar, value) ==
    IF (value > bar.maximum \/ value < 0) /\ bar.maximum # 0 THEN bar
    ELSE [bar EXCEPT !.value = value]

\* MainWindow.on_request_progress
on_request_progress(s) ==
    /\ progress_bar' = setValue(progress_bar, s.current)
    /\ UNCHANGED << temp_results, send_button, status_bar >>

\* The event loop of the GUI thread delivers the oldest queued signal.
Deliver ==
    /\ ~crashed
    /\ queue # <<>>
    /\ IF Head(queue).signal.sig = "finished"
          THEN on_request_finished(Head(queue).signal)
          ELSE on_request_progress(Head(queue).signal)
    /\ queue' = Tail(queue)
    /\ UNCHANGED << worker, call, db_names, message_box, db_models, db_prompts, db_results, prompt_text,
                    current_prompt_id, workers, crashed, user_actions >>

\* MainWindow.clear_results, by its button.
clear_results ==
    /\ UserCanAct /\ user_actions < MaxUserActions
    /\ temp_results' = <<>>
    /\ status_bar' = "Results cleared"
    /\ user_actions' = user_actions + 1
    /\ UNCHANGED << worker, call, db_names, message_box, db_models, db_prompts, db_results, prompt_text,
                    current_prompt_id, send_button, progress_bar, workers, queue, crashed >>

\* MainWindow.new_query
new_query ==
    /\ UserCanAct /\ user_actions < MaxUserActions
    /\ prompt_text' = ""
    /\ current_prompt_id' = 0
    /\ temp_results' = <<>>
    /\ status_bar' = "Ready for a new query"
    /\ user_actions' = user_actions + 1
    /\ UNCHANGED << worker, call, db_names, message_box, db_models, db_prompts, db_results, send_button,
                    progress_bar, workers, queue, crashed >>

\* MainWindow.load_selected_prompt (and load_prompt_by_id) for a saved prompt.
load_selected_prompt ==
    /\ UserCanAct /\ user_actions < MaxUserActions
    /\ \E current_data \in PromptIds :
         /\ prompt_text' = db_prompts[current_data]
         /\ current_prompt_id' = current_data
         /\ temp_results' = load_saved_results_for_prompt(current_data)
    /\ status_bar' = "Prompt loaded"
    /\ user_actions' = user_actions + 1
    /\ UNCHANGED << worker, call, db_names, message_box, db_models, db_prompts, db_results, send_button,
                    progress_bar, workers, queue, crashed >>

\* The loop of save_selected_results from the table row on: db.create_result
\* for every ticked row; a row whose model or prompt is no longer in its table
\* violates a foreign key of the results table and is reported, not stored.
RECURSIVE SaveRows(_, _, _)
SaveRows(rows, row, checked) ==
    IF row > Len(temp_results) THEN rows
    ELSE LET result == temp_results[row]
         IN  SaveRows(
                 IF /\ row \in checked
                    /\ db_models[result.model_id] # "absent"
                    /\ current_prompt_id \in PromptIds
                    THEN Append(rows, [ prompt_id |-> current_prompt_id,
                                        model_id |-> result.model_id,
                                        response |-> result.response ])
                    ELSE rows,
                 row + 1, checked)

\* MainWindow.save_selected_results with the boxes of the rows in checked
\* ticked by the user, up to the message box that reports the saved rows.
save_selected_results ==
    /\ UserCanAct /\ user_actions < MaxUserActions
    /\ temp_results # <<>>
    /\ current_prompt_id # 0
    /\ \E checked \in (SUBSET (1..Len(temp_results))) \ {{}} :
         /\ db_results' = SaveRows(db_results, 1, checked)
         /\ message_box' = IF db_results' # db_results THEN "saved" ELSE "none"
    /\ user_actions' = user_actions + 1
    /\ UNCHANGED << worker, call, db_models, db_names, db_prompts, prompt_text,
                    current_prompt_id, temp_results, send_button, progress_bar,
                    status_bar, workers, queue, crashed >>

\* The rest of save_selected_results, after the user closed the message box.
save_selected_results_shown ==
    /\ ~crashed
    /\ message_box = "saved"
    /\ message_box' = "none"
    /\ status_bar' = "Results saved"
    /\ UNCHANGED << worker, call, db_models, db_names, db_prompts, db_results,
                    prompt_text, current_prompt_id, temp_results, send_button,
                    progress_bar, workers, queue, crashed, user_actions >>

\* ViewPromptsDialog.create_prompt, the dialog accepted.
create_prompt ==
    /\ UserCanAct /\ user_actions < MaxUserActions
    /\ db_prompts' = Append(db_prompts, "typed in the dialog")
    /\ user_actions' = user_actions + 1
    /\ UNCHANGED << worker, call, db_models, db_names, message_box, db_results,
                    prompt_text, current_prompt_id, temp_results, send_button,
                    progress_bar, status_bar, workers, queue, crashed >>

\* ViewPromptsDialog.edit_prompt, the dialog accepted with another text.
edit_prompt ==
    /\ UserCanAct /\ user_actions < MaxUserActions
    /\ \E prompt_id \in PromptIds :
         /\ db_prompts[prompt_id] # "edited text"
         /\ db_prompts' = [db_prompts EXCEPT ![prompt_id] = "edited text"]
    /\ user_actions' = user_actions + 1
    /\ UNCHANGED << worker, call, db_models, db_names, message_box, db_results,
                    prompt_text, current_prompt_id, temp_results, send_button,
                    progress_bar, status_bar, workers, queue, crashed >>

\* db.delete_prompt: the results of the prompts in ids go with them.
RECURSIVE WithoutResultsOf(_, _)
WithoutResultsOf(rows, ids) ==
    IF rows = <<>> THEN <<>>
    ELSE IF Head(rows).prompt_id \in ids THEN WithoutResultsOf(Tail(rows), ids)
    ELSE <<Head(rows)>> \o WithoutResultsOf(Tail(rows), ids)

\* ViewPromptsDialog.delete_prompt, confirmed.
delete_prompt ==
    /\ UserCanAct /\ user_actions < MaxUserActions
    /\ \E prompt_id \in PromptIds :
         /\ db_prompts' = [db_prompts EXCEPT ![prompt_id] = DeletedPrompt]
         /\ db_results' = WithoutResultsOf(db_results, {prompt_id})
    /\ user_actions' = user_actions + 1
    /\ UNCHANGED << worker, call, db_models, db_names, message_box, prompt_text,
                    current_prompt_id, temp_results, send_button, progress_bar,
                    status_bar, workers, queue, crashed >>

\* ViewPromptsDialog.clear_all_prompts, confirmed.
clear_all_prompts ==
    /\ UserCanAct /\ user_actions < MaxUserActions
    /\ PromptIds # {}
    /\ db_prompts' = [ i \in 1..Len(db_prompts) |-> DeletedPrompt ]
    /\ db_results' = <<>>
    /\ user_actions' = user_actions + 1
    /\ UNCHANGED << worker, call, db_models, db_names, message_box, prompt_text,
                    current_prompt_id, temp_results, send_button, progress_bar,
                    status_bar, workers, queue, crashed >>

\* The names of the rows of the models table other than the row id.
NamesInUse(id) == { db_names[i] : i \in { j \in DOMAIN db_models : j # id /\ db_models[j] # "absent" } }

\* ManageModelsDialog.add_model and MainWindow.add_model, the dialog accepted
\* with a name that no model has (models.name is UNIQUE).
add_model ==
    /\ UserCanAct /\ user_actions < MaxUserActions
    /\ Len(db_models) < MaxModels
    /\ \E name \in ModelNames \ NamesInUse(0), is_active \in { "active", "inactive" } :
         /\ db_models' = Append(db_models, is_active)
         /\ db_names' = Append(db_names, name)
    /\ user_actions' = user_actions + 1
    /\ UNCHANGED << worker, call, message_box, db_prompts, db_results, prompt_text,
                    current_prompt_id, temp_results, send_button, progress_bar,
                    status_bar, workers, queue, crashed >>

\* ManageModelsDialog.edit_model, the dialog accepted: update_model writes
\* the name and is_active of the row in one statement (the name is one no
\* other model has, models.name is UNIQUE).
edit_model ==
    /\ UserCanAct /\ user_actions < MaxUserActions
    /\ \E model_id \in DOMAIN db_models :
         /\ db_models[model_id] # "absent"
         /\ \E name \in ModelNames \ NamesInUse(model_id), is_active \in { "active", "inactive" } :
              /\ db_names' = [db_names EXCEPT ![model_id] = name]
              /\ db_models' = [db_models EXCEPT ![model_id] = is_active]
    /\ user_actions' = user_actions + 1
    /\ UNCHANGED << worker, call, message_box, db_prompts, db_results,
                    prompt_text, current_prompt_id, temp_results, send_button,
                    progress_bar, status_bar, workers, queue, crashed >>

\* What PromptImprovementDialog.get_selected_prompt gives for a selected
\* variant or the improved text.
SelectedPrompts == { "improved prompt" }

\* The prompt the improvement dialog is opened with: the text of the field,
\* or a saved prompt when the field is empty.
OriginalOfDialog ==
    IF prompt_text # "" THEN { prompt_text }
    ELSE { db_prompts[i] : i \in PromptIds }

\* MainWindow.show_improve_prompt_dialog, the dialog accepted with a selected
\* variant or improved text, or with none (the original prompt is taken).
\* With an empty prompt field the user agrees to use the saved prompt chosen
\* in the combo box.
show_improve_prompt_dialog ==
    /\ UserCanAct /\ user_actions < MaxUserActions
    /\ prompt_text # "" \/ PromptIds # {}
    /\ ActiveIds # {}
    /\ \E selected_prompt \in SelectedPrompts \cup OriginalOfDialog :
         prompt_text' = selected_prompt
    /\ user_actions' = user_actions + 1
    /\ status_bar' = "Improved prompt inserted into the input field"
    /\ UNCHANGED << worker, call, db_names, message_box, db_models, db_prompts, db_results, current_prompt_id,
                    temp_results, send_button, progress_bar, workers, queue, crashed >>

\* ManageModelsDialog.toggle_active
toggle_active ==
    /\ UserCanAct /\ user_actions < MaxUserActions
    /\ \E model_id \in DOMAIN db_models :
         /\ db_models[model_id] # "absent"
         /\ db_models' = [db_models EXCEPT
               ![model_id] = IF @ = "active" THEN "inactive" ELSE "active"]
    /\ user_actions' = user_actions + 1
    /\ UNCHANGED << worker, call, db_names, message_box, db_prompts, db_results, prompt_text, current_prompt_id,
                    temp_results, send_button, progress_bar, status_bar, workers,
                    queue, crashed >>

\* ManageModelsDialog.delete_model, confirmed; the foreign key of the results
\* table keeps a model that has saved results.
delete_model ==
    /\ UserCanAct /\ user_actions < MaxUserActions
    /\ \E model_id \in DOMAIN db_models :
         /\ db_models[model_id] # "absent"
         /\ \A i \in 1..Len(db_results) : db_results[i].model_id # model_id
         /\ db_models' = [db_models EXCEPT ![model_id] = "absent"]
    /\ user_actions' = user_actions + 1
    /\ UNCHANGED << worker, call, db_names, message_box, db_prompts, db_results, prompt_text, current_prompt_id,
                    temp_results, send_button, progress_bar, status_bar, workers,
                    queue, crashed >>

\* The main window was opened on a database with some models.
InitGui ==
    /\ db_models \in [1..MaxProviders -> {"active", "inactive"}]
    /\ InitWindow
    /\ NoCall
    /\ env = CredNames
    /\ server = BatchResponses
    /\ model_list = <<>>
    /\ max_retries = MaxRetries
    /\ pc = "done"
    /\ idx = 0
    /\ attempt = 0
    /\ last_error = NoneVal
    /\ events = <<>>
    /\ posts = <<>>
    /\ resps = <<>>
    /\ sleeps = <<>>
    /\ raised = Raised("none", <<>>)

\* No worker thread and no window: the state of the specifications of
\* single calls.
NoWorker ==
    /\ server = {}
    /\ model_list = <<>>
    /\ max_retries = 0
    /\ pc = "done"
    /\ idx = 0
    /\ attempt = 0
    /\ last_error = NoneVal
    /\ events = <<>>
    /\ posts = <<>>
    /\ resps = <<>>
    /\ sleeps = <<>>
    /\ raised = Raised("none", <<>>)
    /\ db_models = [i \in 1..MaxProviders |-> "active"]
    /\ InitWindow

NextGui ==
    \/ TypePrompt \/ send_prompt \/ WorkerFinished \/ WorkerProgress \/ WorkerReturn
    \/ Deliver \/ show_improve_prompt_dialog
    \/ clear_results \/ new_query \/ load_selected_prompt
    \/ toggle_active \/ delete_model \/ save_selected_results
    \/ save_selected_results_shown \/ create_prompt \/ edit_prompt
    \/ delete_prompt \/ clear_all_prompts \/ add_model \/ edit_model

SpecGui == InitGui /\ [][NextGui]_vars

(* --------------------------- client selection -------------------------- *)

\* The parts a base URL is made of.
UrlParts ==
    { "https://", "OpenRouter.ai", "API.OpenAI.com", "/openai", "/DeepSeek",
      "Groq.com", "llm.example.org" }

\* The sequences of at most n elements of S.
SeqsUpTo(S, n) == UNION { [1..k -> S] : k \in 0..n }

\* A model row with a given base URL and credential name.
ModelWith(url, cred) == [ id |-> 1, name |-> "model", api_url |-> url, api_id |-> cred ]

\* A call of create_api_client is about to be made.
InitClient ==
    /\ NoWorker
    /\ env \in SUBSET CredNames
    /\ fn = "none"
    /\ args \in { ModelWith(url, cred) : url \in SeqsUpTo(UrlParts, MaxUrlParts), cred \in CredNames }
    /\ ret = <<>>

\* create_api_client(model): the class is chosen by the URL, then
\* BaseAPIClient.__init__ looks up the key.
Call_create_api_client ==
    /\ fn = "none"
    /\ fn' = "create_api_client"
    /\ ret' = IF args.api_id \in env
                THEN Returned(create_api_client(args.api_url))
                ELSE MissingKeyError(args)
    /\ UNCHANGED << worker, gui, args >>

NextClient == Call_create_api_client

SpecClient == InitClient /\ [][NextClient]_vars

(* ------------------------ prompt improver parsers ---------------------- *)

\* A text is the sequence of its pieces: a marker, a list prefix, a blank, a
\* line break or a run of words.  The markers are Russian in the source and
\* are written in English here; a piece counts the characters of the
\* source's string.
IMPROVED_UPPER == "IMPROVED VERSION:"
IMPROVED_MIXED == "Improved version:"
IMPROVED_PROMPT == "Improved prompt:"
CORRECTED_PROMPT == "Corrected prompt:"
IMPROVED_SHORT == "Improved:"
VARIANTS_UPPER == "VARIANTS:"
VARIANTS_MIXED == "Variants:"
NL == "\n"
SP == " "
LongWords == "Summarise this text briefly"
MidWords == "Tell a story"

\* len() of a piece.
PieceLen(piece) ==
    CASE piece = IMPROVED_UPPER -> 18
      [] piece = IMPROVED_MIXED -> 18
      [] piece = IMPROVED_PROMPT -> 17
      [] piece = CORRECTED_PROMPT -> 19
      [] piece = IMPROVED_SHORT -> 11
      [] piece = VARIANTS_UPPER -> 9
      [] piece = VARIANTS_MIXED -> 9
      [] piece \in {NL, SP, "-", "*", "A", "B", "C"} -> 1
      [] piece \in {"1.", "2.", "3.", "4.", "5."} -> 2
      [] piece = "Foo." -> 4
      [] piece = "abcdef" -> 6
      [] piece = "answer" -> 6
      [] piece = "Invalid API key" -> 17
      [] piece = MidWords -> 12
      [] piece = LongWords -> 27

\* len(text).
RECURSIVE TextLen(_)
TextLen(text) == IF text = <<>> THEN 0 ELSE PieceLen(Head(text)) + TextLen(Tail(text))

\* str.strip().
RECURSIVE lstrip(_)
lstrip(text) == IF text # <<>> /\ Head(text) \in {NL, SP} THEN lstrip(Tail(text)) ELSE text

RECURSIVE rstrip(_)
rstrip(text) ==
    IF text # <<>> /\ text[Len(text)] \in {NL, SP}
    THEN rstrip(SubSeq(text, 1, Len(text) - 1))
    ELSE text

strip(text) == rstrip(lstrip(text))

\* text.find(marker), counted from 1.
Find(text, marker) ==
    CHOOSE i \in 1..Len(text) : text[i] = marker /\ \A j \in 1..(i - 1) : text[j] # marker

\* Variant: empty parts are left out, as split() without a separator does.
RECURSIVE split_skipEmpty(_, _)
split_skipEmpty(text, sep) ==
    IF ~Contains(text, sep) THEN (IF text = <<>> THEN <<>> ELSE << text >>)
    ELSE (IF Find(text, sep) = 1 THEN <<>> ELSE << SubSeq(text, 1, Find(text, sep) - 1) >>)
         \o split_skipEmpty(SubSeq(text, Find(text, sep) + 1, Len(text)), sep)

\* text.split(sep): the list of the parts.
RECURSIVE split(_, _)
split(text, sep) ==
    IF ~Contains(text, sep) THEN << text >>
    ELSE << SubSeq(text, 1, Find(text, sep) - 1) >>
         \o split(SubSeq(text, Find(text, sep) + 1, Len(text)), sep)

\* text.split(sep, 1): at most two parts.
split1(text, sep) ==
    IF ~Contains(text, sep) THEN << text >>
    ELSE << SubSeq(text, 1, Find(text, sep) - 1),
            SubSeq(text, Find(text, sep) + 1, Len(text)) >>

\* seq[:n] of a list.
Slice(seq, n) ==
    IF n >= 0 THEN SubSeq(seq, 1, IF n < Len(seq) THEN n ELSE Len(seq))
    ELSE SubSeq(seq, 1, Len(seq) + n)

\* [line.strip() for line in lines if line.strip()]
RECURSIVE NonEmptyStripped(_)
NonEmptyStripped(lines) ==
    IF lines = <<>> THEN <<>>
    ELSE IF strip(Head(lines)) = <<>> THEN NonEmptyStripped(Tail(lines))
    ELSE << strip(Head(lines)) >> \o NonEmptyStripped(Tail(lines))

\* The markers of _extract_improved_prompt, in the order they are tried.
markers ==
    << IMPROVED_UPPER, IMPROVED_MIXED, IMPROVED_PROMPT, CORRECTED_PROMPT, IMPROVED_SHORT >>

\* The text after the first occurrence of the marker, cut at the variants
\* marker.
AfterMarker(response_clean, marker) ==
    LET improved == strip(split1(response_clean, marker)[2])
    IN  IF Contains(improved, VARIANTS_UPPER)
        THEN strip(split(improved, VARIANTS_UPPER)[1])
        ELSE improved

\* The loop over the markers from the k-th on: the text it returns, or the
\* empty text when it returns nothing.
RECURSIVE MarkerLoop(_, _)
MarkerLoop(response_clean, k) ==
    IF k > Len(markers) THEN <<>>
    ELSE IF Contains(response_clean, markers[k]) /\ AfterMarker(response_clean, markers[k]) # <<>>
    THEN AfterMarker(response_clean, markers[k])
    ELSE MarkerLoop(response_clean, k + 1)

\* line.startswith(('1.', '2.', '3.', '-', '*'))
StartsWithListPrefix(line) == line # <<>> /\ Head(line) \in {"1.", "2.", "3.", "-", "*"}

\* Variant: every line longer than 20 characters is substantial.
Substantial_anyLongLine(line) == TextLen(line) > 20

\* A substantial line: longer than 20 characters and not a list item.
Substantial(line) == TextLen(line) > 20 /\ ~StartsWithListPrefix(line)

\* The first substantial line, or the empty text.
RECURSIVE FirstSubstantial(_)
FirstSubstantial(lines) ==
    IF lines = <<>> THEN <<>>
    ELSE IF Substantial(Head(lines)) THEN Head(lines)
    ELSE FirstSubstantial(Tail(lines))

\* Variant: without a marker and a substantial line the original is returned.
LastResort_original(response_clean, original_prompt) == original_prompt

\* The last two returns of _extract_improved_prompt.
LastResort(response_clean, original_prompt) ==
    IF response_clean # original_prompt /\ TextLen(response_clean) > 10
    THEN response_clean
    ELSE original_prompt

\* PromptImprover._extract_improved_prompt
_extract_improved_prompt(response, original_prompt) ==
    LET response_clean == strip(response)
        non_empty_lines == NonEmptyStripped(split(response_clean, NL))
    IN  IF MarkerLoop(response_clean, 1) # <<>> THEN MarkerLoop(response_clean, 1)
        ELSE IF FirstSubstantial(non_empty_lines) # <<>> THEN FirstSubstantial(non_empty_lines)
        ELSE LastResort(response_clean, original_prompt)

\* Variant: the captured text keeps the prefix of the line.
Captured_withPrefix(line) ==
    IF line # <<>> /\ Head(line) \in {"1.", "2.", "3.", "4.", "5.", "-", "*"} /\ Tail(line) # <<>>
    THEN line
    ELSE <<>>

\* The text a pattern of _extract_variants captures in a line (group 1,
\* stripped), or the empty text when no pattern matches.
Captured(line) ==
    IF line # <<>> /\ Head(line) \in {"1.", "2.", "3.", "4.", "5.", "-", "*"}
    THEN lstrip(Tail(line))
    ELSE <<>>

\* Variant: every captured text is a variant.
LongEnough_any(variant_text) == variant_text # <<>>

\* The test on a captured text.
LongEnough(variant_text) == variant_text # <<>> /\ TextLen(variant_text) > 5

\* The first loop of _extract_variants: the captured texts of the lines.
RECURSIVE PatternLoop(_)
PatternLoop(lines) ==
    IF lines = <<>> THEN <<>>
    ELSE IF LongEnough(Captured(strip(Head(lines))))
    THEN << Captured(strip(Head(lines))) >> \o PatternLoop(Tail(lines))
    ELSE PatternLoop(Tail(lines))

\* line.startswith(('УЛУЧШЕННАЯ', 'ВАРИАНТЫ', 'Варианты'))
StartsWithMarker(line) ==
    line # <<>> /\ Head(line) \in {IMPROVED_UPPER, VARIANTS_UPPER, VARIANTS_MIXED}

\* line in variants.
InList(line, variants) == \E i \in 1..Len(variants) : variants[i] = line

\* The second loop of _extract_variants, which appends whole lines.
RECURSIVE FallbackLoop(_, _)
FallbackLoop(lines, variants) ==
    IF lines = <<>> THEN variants
    ELSE LET line == strip(Head(lines))
         IN  IF line # <<>> /\ TextLen(line) > 10 /\ ~StartsWithMarker(line) /\ ~InList(line, variants)
             THEN FallbackLoop(Tail(lines), Append(variants, line))
             ELSE FallbackLoop(Tail(lines), variants)

\* Variant: the list is returned without the final cut.
Limit_none(variants, num_variants) == variants

\* variants[:num_variants] if variants else []
Limit(variants, num_variants) == IF variants # <<>> THEN Slice(variants, num_variants) ELSE <<>>

\* PromptImprover._extract_variants
_extract_variants(response, num_variants) ==
    LET response_clean == strip(response)
        variants_section ==
            IF Contains(response_clean, VARIANTS_UPPER)
            THEN strip(split(response_clean, VARIANTS_UPPER)[2])
            ELSE IF Contains(response_clean, VARIANTS_MIXED)
            THEN strip(split(response_clean, VARIANTS_MIXED)[2])
            ELSE response_clean
        lines == split(variants_section, NL)
        variants == PatternLoop(lines)
    IN  IF Len(variants) < num_variants
        THEN Limit(FallbackLoop(lines, variants), num_variants)
        ELSE Limit(variants, num_variants)

\* The improved field of _parse_combined_response.
CombinedImproved(response_clean, original_prompt) ==
    IF Contains(response_clean, IMPROVED_UPPER)
    THEN LET improved_section == split(response_clean, IMPROVED_UPPER)[2]
         IN  IF Contains(improved_section, VARIANTS_UPPER)
             THEN strip(split(improved_section, VARIANTS_UPPER)[1])
             ELSE strip(improved_section)
    ELSE _extract_improved_prompt(response_clean, original_prompt)

\* The variants field of _parse_combined_response.
CombinedVariants(response_clean) ==
    IF Contains(response_clean, VARIANTS_UPPER)
    THEN _extract_variants(strip(split(response_clean, VARIANTS_UPPER)[2]), 3)
    ELSE _extract_variants(response_clean, 3)

\* PromptImprover._parse_combined_response
_parse_combined_response(response, original_prompt) ==
    [ improved |-> CombinedImproved(strip(response), original_prompt),
      variants |-> CombinedVariants(strip(response)) ]

\* list[i] exists (i counted from 0, as in the source).
HasPart(list, i) == i + 1 <= Len(list)

\* The loop over the markers from the k-th on indexes a part that is missing.
RECURSIVE MarkerLoopRaises(_, _)
MarkerLoopRaises(response_clean, k) ==
    IF k > Len(markers) THEN FALSE
    ELSE IF ~Contains(response_clean, markers[k]) THEN MarkerLoopRaises(response_clean, k + 1)
    ELSE LET improved == strip(split1(response_clean, markers[k])[2])
         IN  IF Contains(improved, VARIANTS_UPPER) /\ ~HasPart(split(improved, VARIANTS_UPPER), 0)
             THEN TRUE
             ELSE IF AfterMarker(response_clean, markers[k]) # <<>> THEN FALSE
             ELSE MarkerLoopRaises(response_clean, k + 1)

\* _extract_improved_prompt ends in an IndexError.
Raises_extract_improved_prompt(response) == MarkerLoopRaises(strip(response), 1)

\* _extract_variants ends in an IndexError.
Raises_extract_variants(response) ==
    LET response_clean == strip(response)
    IN  IF Contains(response_clean, VARIANTS_UPPER)
        THEN ~HasPart(split(response_clean, VARIANTS_UPPER), 1)
        ELSE IF Contains(response_clean, VARIANTS_MIXED)
        THEN ~HasPart(split(response_clean, VARIANTS_MIXED), 1)
        ELSE FALSE

\* _parse_combined_response ends in an IndexError.
Raises_parse_combined_response(response) ==
    LET response_clean == strip(response)
    IN  \/ IF Contains(response_clean, IMPROVED_UPPER)
           THEN IF ~HasPart(split(response_clean, IMPROVED_UPPER), 1) THEN TRUE
                ELSE LET improved_section == split(response_clean, IMPROVED_UPPER)[2]
                     IN  /\ Contains(improved_section, VARIANTS_UPPER)
                         /\ ~HasPart(split(improved_section, VARIANTS_UPPER), 0)
           ELSE Raises_extract_improved_prompt(response_clean)
        \/ IF Contains(response_clean, VARIANTS_UPPER)
           THEN IF ~HasPart(split(response_clean, VARIANTS_UPPER), 1) THEN TRUE
                ELSE Raises_extract_variants(strip(split(response_clean, VARIANTS_UPPER)[2]))
           ELSE Raises_extract_variants(response_clean)

\* list[i] of a part that is missing.
IndexError == Raised("IndexError", << "list index out of range" >>)

\* None.strip()
NoneStrip == Raised("AttributeError", << "'NoneType' object has no attribute 'strip'" >>)

\* The lines responses are made of.
LineKinds ==
    { <<>>,
      << IMPROVED_UPPER >>,
      << IMPROVED_UPPER, SP, "Foo." >>,
      << IMPROVED_SHORT, SP, LongWords >>,
      << VARIANTS_UPPER >>,
      << VARIANTS_MIXED >>,
      << "1.", SP, "A" >>,
      << "2.", SP, MidWords >>,
      << "-", SP, LongWords >>,
      << "Foo." >>,
      << MidWords >>,
      << LongWords >>,
      << SP, "abcdef", SP >> }

\* '\n'.join(lines)
RECURSIVE Join(_)
Join(lines) ==
    IF lines = <<>> THEN <<>>
    ELSE IF Len(lines) = 1 THEN lines[1]
    ELSE lines[1] \o << NL >> \o Join(Tail(lines))

\* The texts of the numbered lines of a well-formed combined response.
NumberedTexts == { "A", "B", "C", "abcdef", MidWords }

\* The numbered lines 'k. <text>' of the texts.
NumberedLines(texts) == [ k \in 1..Len(texts) |-> << StrOf(k) \o ".", SP, texts[k] >> ]

\* The improved-version marker, the improved text, an empty line, the
\* variants marker and the numbered lines.
WellFormed(improved, texts) ==
    Join(<< << IMPROVED_UPPER >>, << improved >>, <<>>, << VARIANTS_UPPER >> >> \o NumberedLines(texts))

\* The improved texts of the well-formed responses.
ImprovedTexts == { "Foo.", LongWords }

\* The lists of one to MaxNumbered numbered texts.
NumberedLists == UNION { [1..k -> NumberedTexts] : k \in 1..MaxNumbered }

\* The responses that are explored.
ResponseTexts ==
    { Join(lines) : lines \in SeqsUpTo(LineKinds, MaxLines) }
    \cup { WellFormed(improved, texts) : improved \in ImprovedTexts, texts \in NumberedLists }

\* The original prompts.
OriginalPrompts == { << MidWords >>, << "Foo." >> }

\* send_prompt_to_model returned a text, or None for a null content.
InitParse ==
    /\ NoWorker
    /\ env = CredNames
    /\ fn = "none"
    /\ args \in [ response : ResponseTexts, response_type : {"str"}, original_prompt : OriginalPrompts ]
                \cup [ response : {<<>>}, response_type : {"NoneType"}, original_prompt : OriginalPrompts ]
    /\ ret = <<>>

Call_extract_improved_prompt ==
    /\ fn = "none"
    /\ fn' = "_extract_improved_prompt"
    /\ ret' = IF args.response_type = "NoneType" THEN NoneStrip
              ELSE IF Raises_extract_improved_prompt(args.response) THEN IndexError
              ELSE Returned(_extract_improved_prompt(args.response, args.original_prompt))
    /\ UNCHANGED << worker, gui, args >>

Call_extract_variants ==
    /\ fn = "none"
    /\ \E num_variants \in 0..MaxBound :
          /\ fn' = "_extract_variants"
          /\ args' = [ response |-> args.response, response_type |-> args.response_type,
                       original_prompt |-> args.original_prompt, num_variants |-> num_variants ]
          /\ ret' = IF args.response_type = "NoneType" THEN NoneStrip
                    ELSE IF Raises_extract_variants(args.response) THEN IndexError
                    ELSE Returned(_extract_variants(args.response, num_variants))
    /\ UNCHANGED << worker, gui >>

Call_parse_combined_response ==
    /\ fn = "none"
    /\ fn' = "_parse_combined_response"
    /\ ret' = IF args.response_type = "NoneType" THEN NoneStrip
              ELSE IF Raises_parse_combined_response(args.response) THEN IndexError
              ELSE Returned(_parse_combined_response(args.response, args.original_prompt))
    /\ UNCHANGED << worker, gui, args >>

\* PromptImprovementDialog.improve_prompt: the result of improve_with_variants
\* with the variants cut to the configured number.
Dialog_improve_prompt ==
    /\ fn = "none"
    /\ \E num_variants \in 0..MaxBound :
          /\ fn' = "improve_prompt"
          /\ args' = [ response |-> args.response, response_type |-> args.response_type,
                       original_prompt |-> args.original_prompt, num_variants |-> num_variants ]
          /\ ret' = IF args.response_type = "NoneType" THEN NoneStrip
                    ELSE IF Raises_parse_combined_response(args.response) THEN IndexError
                    ELSE LET result == _parse_combined_response(args.response, args.original_prompt)
                         IN  Returned([ improved |-> result.improved,
                                        variants |-> Slice(result.variants, num_variants) ])
    /\ UNCHANGED << worker, gui >>

NextParse ==
    \/ Call_extract_improved_prompt
    \/ Call_extract_variants
    \/ Call_parse_combined_response
    \/ Dialog_improve_prompt

SpecParse == InitParse /\ [][NextParse]_vars

(* ---------------------------- prompt improver -------------------------- *)

\* The try block of improve_prompt and of adapt_for_model_type after
\* send_prompt_to_model returned or raised res; the except clause logs and
\* raises the exception again.
ImproverResult(res, original_prompt) ==
    IF res.exc # "none" THEN res
    ELSE IF res.isnone THEN NoneStrip
    ELSE Returned(_extract_improved_prompt(res.val, original_prompt))

\* send_prompt_to_model returns or raises res to the improver, which emits no
\* signal.
SendReturns(res) ==
    /\ raised' = res
    /\ pc' = "done"
    /\ UNCHANGED << events, idx >>

\* network.send_prompt_to_model called by the improver: create_api_client and
\* BaseAPIClient.__init__.
send_prompt_to_model ==
    /\ pc = "run"
    /\ resps' = <<>>
    /\ sleeps' = <<>>
    /\ attempt' = 0
    /\ last_error' = NoneVal
    /\ IF model_list[1].api_id \notin env
          THEN SendReturns(MissingKeyError(model_list[1]))
          ELSE /\ pc' = "request"
               /\ UNCHANGED << events, raised, idx >>
    /\ UNCHANGED << config, posts, gui, call >>

\* One iteration of the loop of _make_request in the improver's call, with
\* what follows it in send_request when the loop is left.
send_request_attempt ==
    /\ pc = "request"
    /\ attempt < max_retries
    /\ \E resp \in server :
         LET r == _make_request_step(resp, attempt, max_retries, last_error)
             client == create_api_client(model_list[1].api_url)
         IN  /\ posts' = [posts EXCEPT ![1] = @ + 1]
             /\ resps' = Append(resps, resp)
             /\ sleeps' = IF r.sleep > 0
                             THEN Append(sleeps, [after |-> attempt, secs |-> r.sleep])
                             ELSE sleeps
             /\ last_error' = r.last_error
             /\ IF r.ctl = "continue"
                   THEN /\ attempt' = attempt + 1
                        /\ UNCHANGED << events, raised, idx, pc >>
                   ELSE /\ attempt' = attempt
                        /\ IF r.ctl = "raise"
                              THEN SendReturns(send_request_except(client, r.exc, r.err))
                              ELSE SendReturns(send_request_extract(client, r.data))
    /\ UNCHANGED << config, gui, call >>

\* The loop of _make_request ran out of attempts in the improver's call.
send_request_exhausted ==
    /\ pc = "request"
    /\ attempt >= max_retries
    /\ SendReturns(Raised("APIError", ExhaustedError(max_retries, last_error)))
    /\ UNCHANGED << config, attempt, last_error, posts, resps, sleeps, gui, call >>

\* PromptImprover.improve_prompt, after its call of send_prompt_to_model
\* returned or raised.
improve_prompt ==
    /\ pc = "done"
    /\ fn = "none"
    /\ \E original_prompt \in OriginalPrompts :
          /\ fn' = "improve_prompt"
          /\ args' = [ original_prompt |-> original_prompt ]
          /\ ret' = ImproverResult(raised, original_prompt)
    /\ UNCHANGED << worker, gui >>

\* PromptImprover.adapt_for_model_type
adapt_for_model_type ==
    /\ pc = "done"
    /\ fn = "none"
    /\ \E prompt \in OriginalPrompts, adaptation_type \in {"code", "analysis", "creative", "general"} :
          /\ fn' = "adapt_for_model_type"
          /\ args' = [ original_prompt |-> prompt, adaptation_type |-> adaptation_type ]
          /\ ret' = ImproverResult(raised, prompt)
    /\ UNCHANGED << worker, gui >>

NextImprove ==
    \/ send_prompt_to_model
    \/ send_request_attempt
    \/ send_request_exhausted
    \/ improve_prompt
    \/ adapt_for_model_type

\* One call of the improver for one model, with an endpoint that can answer
\* anything.
SpecImprove == InitOne /\ [][NextImprove]_vars

(* ------------------------- reading the state --------------------------- *)

IsFinished(e) == e.sig = "finished"

\* The finished signals emitted so far, in order.
Outcomes == SelectSeq(events, IsFinished)

\* The provider at position k has a credential in the secret store.
HasKey(k) == model_list[k].api_id \in env

\* The latest provider has its outcome (no call of _make_request is open).
CallEnded == idx >= 1 /\ pc # "request"

\* The outcome text of the latest provider.
LatestText == Outcomes[idx].text

ConfigErrorText(k) == <<"Configuration error: ", "API key not found for ", model_list[k].api_id>>

(* ------------------------------ C1 .. C3 ------------------------------- *)

\* C1: every dispatch of N providers ends with exactly N finished outcomes,
\* one per position of the list and in the order of the list, each carrying
\* the id, the display name and the credential name of the provider at its
\* position, whether the request succeeded or failed.
C1_OneOutcomePerProvider ==
    /\ Len(Outcomes) = idx
    /\ \A k \in 1..Len(Outcomes) :
          /\ Outcomes[k].id = model_list[k].id
          /\ Outcomes[k].name = model_list[k].name
          /\ Outcomes[k].api_id = model_list[k].api_id
    /\ pc = "done" <=> idx = N

\* A finished batch of two providers, the first failed and the second answered.
C1_Witness ==
    /\ pc = "done" /\ N = 2
    /\ Outcomes[1].text = <<"Invalid API key">>
    /\ Outcomes[2].text = <<"answer">>
    /\ Outcomes[1].id # Outcomes[2].id

\* C2: a request that fails with any error (an APIError, among them the one for
\* a status-200 body that is not JSON, the ValueError of a missing key, or any
\* other exception) becomes the outcome text of its provider; run goes on to
\* the next provider, so that when it ends every provider that has a key was
\* sent a request (when the attempt budget allows one at all).
C2_FailureIsolated ==
    /\ CallEnded /\ raised.exc = "APIError" => LatestText = raised.val
    /\ CallEnded /\ raised.exc = "ValueError" =>
          LatestText = <<"Configuration error: ">> \o raised.val
    /\ CallEnded /\ raised.exc = "none" /\ raised.isnone =>
          Len(LatestText) = 2 /\ LatestText[1] = "Error: "
    /\ idx < N => pc # "done"
    /\ pc = "done" =>
          \A k \in 1..N : HasKey(k) /\ max_retries > 0 => posts[k] >= 1

\* The first of two providers got a status-200 body that is not JSON, and the
\* second one was still sent a request.
C2_Witness ==
    /\ pc = "done" /\ N = 2
    /\ Outcomes[1].text = NotJsonError(NonJsonBody)
    /\ posts[2] >= 1

\* C3: a provider whose credential is not in the secret store gets the
\* configuration error that names the credential, without any HTTP request and
\* without a wait; the other providers are dispatched and get their own outcome.
C3_MissingCredential ==
    /\ \A k \in 1..idx : ~HasKey(k) =>
          /\ Outcomes[k].text = ConfigErrorText(k)
          /\ posts[k] = 0
    /\ \A k \in 1..idx : HasKey(k) => Outcomes[k].text[1] # "Configuration error: "
    /\ CallEnded /\ ~HasKey(idx) => sleeps = <<>> /\ resps = <<>>
    /\ pc = "done" =>
          /\ Len(Outcomes) = N
          /\ \A k \in 1..N : HasKey(k) /\ max_retries > 0 => posts[k] >= 1

\* The first provider has no credential, the second one answered.
C3_Witness ==
    /\ pc = "done" /\ N = 2
    /\ ~HasKey(1) /\ HasKey(2)
    /\ posts[1] = 0 /\ posts[2] >= 1
    /\ Outcomes[1].text = ConfigErrorText(1)
    /\ Outcomes[2].text = <<"answer">>

(* ------------------------------ C4 .. C10 ------------------------------ *)

\* The calls of time.sleep made after the attempt with index k.
SleepsAfter(k) == LET After(sl) == sl.after = k IN SelectSeq(sleeps, After)

IsTransport(r) == r.exc \in {"Timeout", "ConnectionError"}
IsRateLimit(r) == r.exc = "none" /\ r.status = 429

\* The text is the error raised after the loop, for the configured budget.
IsExhaustedText(t) ==
    /\ Len(t) >= 4
    /\ t[1] = "Request failed after " /\ t[2] = StrOf(max_retries) /\ t[3] = " attempts: "

\* The diagnostic that follows the attempt count in that error.
Diagnostic(t) == SubSeq(t, 4, Len(t))

\* C4: when every attempt of a request is answered with status 429 the engine
\* makes exactly max_retries attempts, waits 2^k seconds after the attempt
\* with index k (1 s, 2 s, 4 s, ...) and then fails with the error that
\* mentions the attempt count max_retries.
C4_RateLimitBackoff ==
    (Len(resps) > 0 /\ \A i \in 1..Len(resps) : IsRateLimit(resps[i])) =>
        /\ Len(resps) <= max_retries
        /\ Len(sleeps) = Len(resps)
        /\ \A k \in 0..(Len(resps) - 1) : sleeps[k + 1] = [after |-> k, secs |-> Pow2(k)]
        /\ CallEnded =>
              /\ Len(resps) = max_retries
              /\ posts[idx] = max_retries
              /\ IsExhaustedText(LatestText)

\* Three attempts, all rate limited: waits of 1, 2 and 4 seconds, then failure.
C4_Witness ==
    /\ CallEnded /\ max_retries = 3
    /\ resps = <<RateLimited, RateLimited, RateLimited>>
    /\ sleeps = << [after |-> 0, secs |-> 1], [after |-> 1, secs |-> 2], [after |-> 2, secs |-> 4] >>
    /\ IsExhaustedText(LatestText)

\* The diagnostic d describes a failed attempt with outcome r.
Describes(d, r) ==
    IF r.exc = "Timeout" THEN d = <<"Request timeout after ", StrOf(timeout), "s">>
    ELSE IF r.exc = "ConnectionError" THEN d = <<"Network error: ", r.exc>>
    ELSE /\ d # <<"None">>
         /\ d[1] \notin {"Request timeout after ", "Network error: ", "Response parsing error: "}

\* All attempts of the budget were made and each ended in a timeout, a
\* network error or a status 429.
BudgetExhausted ==
    /\ CallEnded /\ max_retries >= 1
    /\ Len(resps) = max_retries
    /\ \A i \in 1..Len(resps) : IsTransport(resps[i]) \/ IsRateLimit(resps[i])

\* C5: when all max_retries attempts are unsuccessful the error combines the
\* attempt count with the last recorded diagnostic, which is never absent and
\* describes the most recent failed attempt, for every mix of timeouts,
\* network errors and 429 responses.
C5_ExhaustionNamesLastFailure ==
    BudgetExhausted =>
        /\ IsExhaustedText(LatestText)
        /\ Diagnostic(LatestText) # <<"None">>
        /\ Describes(Diagnostic(LatestText), resps[Len(resps)])

\* The failure class of the call that just ended, by its last attempt.
FailureClass ==
    LET r == resps[Len(resps)]
    IN  IF r.exc = "none" /\ r.status = 401 THEN "credential"
        ELSE IF r.exc = "none" /\ (r.status = 404 \/ (r.status = 200 /\ ~r.body.empty /\ IsHtml200(r)))
            THEN "url"
        ELSE IF IsRateLimit(r) THEN "rate limited"
        ELSE IF IsTransport(r) THEN "network"
        ELSE "other"

\* The cause that a failure message names.
CauseNamed(t) ==
    IF t = <<"Invalid API key">> THEN "credential"
    ELSE IF t[1] = "Server returned HTML instead of JSON. " \/ Contains(t, "404")
                \/ Contains(t, "Probably a wrong API URL (404 Not Found)")
        THEN "url"
    ELSE IF IsExhaustedText(t) /\ t[4] \in {"Request timeout after ", "Network error: "}
        THEN "network"
    ELSE IF IsExhaustedText(t) /\ t[4] = "None" THEN "no cause"
    ELSE "other"

\* C6: the failure message identifies its failure class: bad credential (401),
\* bad URL (404 or an HTML page), rate limiting (429 on the attempts that
\* exhaust the budget) and transient network failure each name their own
\* cause, so the four differ pairwise; a call whose last attempt was rate
\* limited reports neither a network cause nor no cause.
C6_MessageNamesItsCause ==
    (CallEnded /\ Len(resps) > 0 /\ FailureClass # "other") =>
        CauseNamed(LatestText) = FailureClass

\* The part of C6 outside rate limiting.
C6_OtherClassesNamed ==
    (CallEnded /\ Len(resps) > 0 /\ FailureClass \notin {"other", "rate limited"}) =>
        CauseNamed(LatestText) = FailureClass

\* C7: a 401 response on any attempt ends the request at once with the
\* invalid-API-key error: no sleep and no further attempt follows it, however
\* many attempts of the budget remain.
C7_UnauthorizedIsTerminal ==
    \A i \in 1..Len(resps) :
        (resps[i].exc = "none" /\ resps[i].status = 401) =>
            /\ i = Len(resps)
            /\ CallEnded
            /\ LatestText = <<"Invalid API key">>
            /\ SleepsAfter(i - 1) = <<>>
            /\ posts[idx] = i

\* A 401 on the second of three attempts, after a timeout.
C7_Witness ==
    /\ CallEnded /\ max_retries = 3
    /\ resps = <<TimeoutExc, Unauthorized>>
    /\ posts[idx] = 2

\* _make_request returned the parsed body and send_request found an answer.
IsSuccess(r) ==
    /\ r.exc = "none" /\ r.status = 200
    /\ ~r.body.empty /\ ~IsHtml200(r)
    /\ r.body.json \in {"chat", "chat_null"}

\* A protocol failure other than rate limiting.
IsTerminalFailure(r) == r.exc = "none" /\ r.status # 429 /\ ~IsSuccess(r)

\* The text t is the error of send_request for a value it could not read.
IsSendError(t) == Len(t) = 2 /\ t[1] \in {"Error sending request: ", "Request sending error: "}

\* The text t is the diagnostic for the failure r: the classifier's message
\* (for every status but 200 and 401 it names the status), or send_request's
\* message for a success body of an unexpected shape.
IsDiagnosticOf(t, r) ==
    IF r.status = 200 /\ r.body.empty THEN t = <<"Empty response from server">>
    ELSE IF r.status = 200 /\ (r.ctype \in HtmlContentTypes \/ r.body.html)
        THEN Len(t) >= 2 /\ t[1] = "Server returned HTML instead of JSON. "
    ELSE IF r.status = 200 /\ r.body.json = "invalid"
        THEN Len(t) >= 2 /\ t[1] = "Invalid response format from server (not JSON): " /\ t[2] = r.body.text
    ELSE IF r.status = 200
        THEN \/ t \in { <<"Invalid response format from API">>, <<"Invalid API response format">> }
             \/ r.body.json \in {"chat_broken", "number"} /\ IsSendError(t)
    ELSE IF r.status = 401 THEN t = <<"Invalid API key">>
    ELSE Contains(t, StrOf(r.status)) /\ ~IsExhaustedText(t) /\ ~IsSendError(t)

\* The failure r is an error body whose message is null: the classifier
\* raises TypeError on it instead of returning a diagnostic.
IsUnreadableError(r) ==
    r.exc = "none" /\ r.status \notin {200, 401, 429} /\ JsonErrorRaises(r.body) /\ ~r.body.html

\* C8: of the protocol failures (non-2xx status, HTML body, empty body,
\* malformed JSON body, unexpected shape of the success body) only status 429
\* leads to another attempt; each of the others ends the request on the
\* attempt where it occurs, with the classifier's diagnostic as the error and
\* without any sleep.
C8_OnlyRateLimitRetried ==
    \A i \in 1..Len(resps) :
        /\ IsTerminalFailure(resps[i]) =>
              /\ i = Len(resps)
              /\ CallEnded
              /\ posts[idx] = i
              /\ SleepsAfter(i - 1) = <<>>
              /\ IsDiagnosticOf(LatestText, resps[i])
        /\ IsRateLimit(resps[i]) =>
              \/ i < Len(resps)
              \/ pc = "request" /\ attempt = i
              \/ CallEnded /\ i = max_retries /\ IsExhaustedText(LatestText)

\* The part of C8 that holds: every terminal failure ends the request on its
\* attempt without a sleep, and its error is the classifier's diagnostic
\* unless the classifier itself raised.
C8_TerminalOnItsAttempt ==
    \A i \in 1..Len(resps) :
        IsTerminalFailure(resps[i]) =>
            /\ i = Len(resps)
            /\ CallEnded
            /\ posts[idx] = i
            /\ SleepsAfter(i - 1) = <<>>
            /\ IF IsUnreadableError(resps[i]) THEN IsSendError(LatestText)
               ELSE IsDiagnosticOf(LatestText, resps[i])

\* A server error on the second attempt, after a rate-limited first one.
C8_Witness ==
    /\ CallEnded /\ max_retries = 3
    /\ resps = <<RateLimited, Resp(500, JSON, MessageBody)>>
    /\ sleeps = << [after |-> 0, secs |-> 1] >>
    /\ LatestText = <<"(", "500", ") ", "Server overloaded">>

\* A status-200 response whose body is not empty, not HTML and not JSON.
IsNotJson200(r) ==
    /\ r.exc = "none" /\ r.status = 200
    /\ ~r.body.empty /\ ~IsHtml200(r) /\ r.body.json = "invalid"

\* C9 as stated: a status-200 response whose body is not empty, not HTML and
\* not valid JSON is retried like a timeout: a wait of 1 second (none after
\* the final attempt) and the next attempt; the request fails only when the
\* budget is exhausted.
C9_NotJsonRetried ==
    \A i \in 1..Len(resps) :
        IsNotJson200(resps[i]) =>
            /\ i < max_retries => SleepsAfter(i - 1) = << [after |-> i - 1, secs |-> 1] >>
            /\ i < max_retries => i < Len(resps) \/ (pc = "request" /\ attempt = i)
            /\ i = max_retries => SleepsAfter(i - 1) = <<>>

\* C9, amended: a status-200 response whose body is not empty, not HTML and
\* not valid JSON ends the request on that attempt with the not-JSON error
\* that carries the first 100 characters of the body; no wait and no further
\* attempt follows.  The 1-second retry (no wait after the final attempt)
\* is what a ValueError raised by the HTTP call itself gets.
C9_NotJsonIsTerminal ==
    \A i \in 1..Len(resps) :
        /\ IsNotJson200(resps[i]) =>
              /\ i = Len(resps)
              /\ CallEnded
              /\ posts[idx] = i
              /\ SleepsAfter(i - 1) = <<>>
              /\ LatestText = <<"Invalid response format from server (not JSON): ">>
                                \o (IF resps[i].body.len > 100
                                      THEN <<resps[i].body.text, "[:", "100", "]">>
                                      ELSE <<resps[i].body.text>>)
        /\ resps[i].exc = "ValueError" =>
              /\ SleepsAfter(i - 1) = (IF i < max_retries THEN << [after |-> i - 1, secs |-> 1] >> ELSE <<>>)
              /\ i = Len(resps) => (pc = "request" /\ attempt = i) \/ IsExhaustedText(LatestText)

\* A body that is not JSON on the first of three attempts.
C9_Witness ==
    /\ CallEnded /\ max_retries = 3
    /\ resps = << Resp(200, JSON, LongTextBody) >>
    /\ posts[idx] = 1 /\ sleeps = <<>>

\* C10: after an attempt that ends in a timeout or another network-level
\* error the engine sleeps exactly 1 second and goes on to the next attempt
\* when the attempt was not the final one, and does not sleep at all when it
\* was the final one.
C10_TransportRetry ==
    \A i \in 1..Len(resps) :
        IsTransport(resps[i]) =>
            /\ i < max_retries =>
                  /\ SleepsAfter(i - 1) = << [after |-> i - 1, secs |-> 1] >>
                  /\ i < Len(resps) \/ (pc = "request" /\ attempt = i)
            /\ i = max_retries =>
                  /\ SleepsAfter(i - 1) = <<>>
                  /\ (pc = "request" /\ attempt = i) \/ (CallEnded /\ IsExhaustedText(LatestText))

\* Three attempts: a timeout, a connection error and a final timeout.
C10_Witness ==
    /\ CallEnded /\ max_retries = 3
    /\ resps = <<TimeoutExc, ConnectionExc, TimeoutExc>>
    /\ sleeps = << [after |-> 0, secs |-> 1], [after |-> 1, secs |-> 1] >>

(* ----------------------------- C11 .. C20 ------------------------------ *)

\* C11: run handles the providers one at a time in list order and emits
\* exactly finished(p1), progress(1,N), ..., finished(pN), progress(N,N): the
\* k-th pair of events is the outcome of the k-th provider followed by
\* progress(k,N), and a provider has been sent a request only when the
\* outcomes and the progress of all providers before it were emitted.
C11_EventsInListOrder ==
    /\ Len(events) = 2 * idx
    /\ \A k \in 1..idx :
          /\ events[2 * k - 1].sig = "finished"
          /\ events[2 * k - 1].id = model_list[k].id
          /\ events[2 * k] = Progress(k, N)
    /\ \A k \in 1..N : posts[k] > 0 => Len(events) >= 2 * (k - 1)
    /\ \A k \in 1..N : k > idx + 1 => posts[k] = 0
    /\ pc = "done" => Len(events) = 2 * N

\* Two providers were both sent requests and the four events were emitted.
C11_Witness ==
    /\ pc = "done" /\ N = 2
    /\ posts[1] >= 1 /\ posts[2] >= 1
    /\ events[2] = Progress(1, 2) /\ events[4] = Progress(2, 2)
    /\ events[1].id = model_list[1].id /\ events[3].id = model_list[2].id

\* The outcomes of the thread w that on_request_finished has handled.
DeliveredOutcomes(w) ==
    workers[w].outcomes
      - Cardinality({ i \in 1..Len(queue) :
                        queue[i].worker = w /\ queue[i].signal.sig = "finished" })

\* The window shows the batch as complete.
Signalled == send_button /\ ~progress_bar.visible

\* The batch of the latest worker is shown complete exactly when all its
\* outcomes were delivered.
CompleteAtLastOutcome ==
    (workers # <<>> /\ ~crashed) =>
        (Signalled <=> DeliveredOutcomes(Len(workers)) = Len(workers[Len(workers)].model_list))

\* C12: the batch is signalled complete (progress bar hidden, send button
\* enabled again) exactly when the number of outcomes delivered for the batch
\* equals the number of its providers: not before the last outcome and always
\* once it is delivered, whatever the user does meanwhile (clearing results,
\* loading a saved prompt, activating, deactivating or deleting a model).
C12_CompleteExactlyAtLastOutcome == CompleteAtLastOutcome

\* The part of C12 where the user does nothing but send prompts.
C12_UndisturbedBatch == user_actions = Len(workers) => CompleteAtLastOutcome

\* A batch of two providers was delivered undisturbed and shown complete.
C12_UndisturbedWitness ==
    /\ user_actions = 1 /\ Len(workers) = 1 /\ Len(workers[1].model_list) = 2
    /\ DeliveredOutcomes(1) = 2 /\ Signalled

\* The HTTP requests sent so far for the positions 1..k of the list.
RECURSIVE PostsUpTo(_)
PostsUpTo(k) == IF k = 0 THEN 0 ELSE posts[k] + PostsUpTo(k - 1)

\* C13: a dispatch, once started, is never cut short: it sends at most
\* N x max_retries requests, run ends only after all N outcomes were emitted,
\* and, as every HTTP call and every wait returns, run does end.
C13_RunsToCompletion ==
    /\ [](PostsUpTo(N) <= N * max_retries)
    /\ [](pc = "done" => Len(Outcomes) = N)
    /\ <>[](pc = "done" /\ Len(Outcomes) = N)

\* Two providers, each took the whole budget of three requests before run ended.
C13_Witness ==
    /\ pc = "done" /\ N = 2 /\ max_retries = 3
    /\ posts[1] = 3 /\ posts[2] = 3
    /\ Len(Outcomes) = 2

\* The attempt i ended the call of _make_request and of send_request.
EndsCall(i) == i = Len(resps) /\ CallEnded /\ posts[idx] = i /\ SleepsAfter(i - 1) = <<>>

\* C14: a status-200 response whose Content-Type contains text/html (in any
\* case), or whose trimmed body starts with <!DOCTYPE, <html or <HTML, ends the
\* call with the server-HTML error and is never parsed as JSON, also when the
\* body is valid JSON; a status-200 response with an empty trimmed body ends
\* the call with the empty-body error, whatever its Content-Type.  A body
\* that is neither is not reported as HTML.
C14_HtmlAndEmptyBody200 ==
    \A i \in 1..Len(resps) :
        (resps[i].exc = "none" /\ resps[i].status = 200) =>
            /\ resps[i].body.empty =>
                  /\ EndsCall(i)
                  /\ raised = Raised("APIError", <<"Empty response from server">>)
            /\ (~resps[i].body.empty /\ (resps[i].ctype \in HtmlContentTypes \/ resps[i].body.html)) =>
                  /\ EndsCall(i)
                  /\ raised.exc = "APIError"
                  /\ Len(raised.val) = IF resps[i].body.title = "" \/ resps[i].body.marks # {} THEN 2 ELSE 3
                  /\ raised.val[1] = "Server returned HTML instead of JSON. "
            /\ (~resps[i].body.empty /\ resps[i].ctype \notin HtmlContentTypes /\ ~resps[i].body.html
                  /\ i = Len(resps) /\ CallEnded) =>
                  \/ raised.val = <<>>
                  \/ raised.val[1] # "Server returned HTML instead of JSON. "

\* An HTML Content-Type in mixed case on a body that is a valid chat answer.
C14_Witness ==
    /\ CallEnded
    /\ resps = << Resp(200, HTML_MIXED, ChatBody) >>
    /\ raised = Raised("APIError", <<"Server returned HTML instead of JSON. ",
                                      "Check the API URL and the API key">>)

\* _make_request returned the parsed body of the attempt i to send_request.
ParsedBody(i) ==
    /\ resps[i].exc = "none" /\ resps[i].status = 200
    /\ ~resps[i].body.empty
    /\ resps[i].ctype \notin HtmlContentTypes /\ ~resps[i].body.html
    /\ resps[i].body.json # "invalid"

\* C15: from a status-200 JSON body send_request returns
\* choices[0].message.content when choices is present and not empty, and
\* raises the unexpected-response-shape APIError, on the same attempt, when
\* choices is absent or empty; whatever else the body is, the call ends on
\* that attempt in an APIError and never in an exception of another type.
C15_ChoicesExtraction ==
    \A i \in 1..Len(resps) :
        ParsedBody(i) =>
            /\ EndsCall(i)
            /\ raised.exc \in {"none", "APIError"}
            /\ resps[i].body.json = "chat" => raised = Returned(resps[i].body.msg)
            /\ resps[i].body.json = "chat_null" => raised = ReturnedNone
            /\ resps[i].body.json \in {"dict", "choices_empty", "error_obj", "error_null", "message"} =>
                  /\ raised.exc = "APIError"
                  /\ raised.val \in { <<"Invalid response format from API">>,
                                      <<"Invalid API response format">> }
            /\ resps[i].body.json \in {"chat_broken", "number", "list"} => raised.exc = "APIError"

\* An empty choices list on the second attempt, after a rate-limited one.
C15_Witness ==
    /\ CallEnded
    /\ resps = << RateLimited, Resp(200, JSON, EmptyChoices) >>
    /\ raised.exc = "APIError"
    /\ raised.val \in { <<"Invalid response format from API">>,
                        <<"Invalid API response format">> }

\* The lower-cased URL contains the keyword.
UrlHas(url, keyword) ==
    \E i \in 1..Len(url) :
        \/ keyword = "openrouter" /\ url[i] = "OpenRouter.ai"
        \/ keyword = "openai" /\ url[i] \in {"API.OpenAI.com", "/openai"}
        \/ keyword = "deepseek" /\ url[i] = "/DeepSeek"
        \/ keyword = "groq" /\ url[i] = "Groq.com"

\* C16: create_api_client chooses the dialect by case-insensitive substring
\* match on the base URL with the priority openrouter, openai, deepseek, groq
\* and takes the OpenAI-compatible client when none matches; no URL is
\* rejected: the only error of the call is the missing API key.
C16_DialectByUrl ==
    fn = "create_api_client" =>
        /\ ret.exc = "none" <=> args.api_id \in env
        /\ ret.exc # "none" => ret = Raised("ValueError", <<"API key not found for ", args.api_id>>)
        /\ ret.exc = "none" =>
              ret.val = IF UrlHas(args.api_url, "openrouter") THEN "OpenRouterAPIClient"
                        ELSE IF UrlHas(args.api_url, "openai") THEN "OpenAIAPIClient"
                        ELSE IF UrlHas(args.api_url, "deepseek") THEN "DeepSeekAPIClient"
                        ELSE IF UrlHas(args.api_url, "groq") THEN "GroqAPIClient"
                        ELSE "OpenAIAPIClient"

\* A Groq host, written with a capital, whose path names openai: the OpenAI
\* client is chosen.
C16_Witness ==
    /\ fn = "create_api_client"
    /\ args.api_url = << "https://", "Groq.com", "/openai" >>
    /\ ret = Returned("OpenAIAPIClient")

\* C17: for every response text and every original prompt the three parsers
\* return a result and never raise, and _parse_combined_response returns
\* both fields, improved and variants.
C17_ParsersReturn ==
    (fn \in {"_extract_improved_prompt", "_extract_variants", "_parse_combined_response"}
        /\ args.response_type = "str") =>
        /\ ret.exc = "none"
        /\ ~ret.isnone
        /\ fn = "_parse_combined_response" => DOMAIN ret.val = {"improved", "variants"}

\* A response that is the variants marker and nothing else: the original
\* prompt and no variants.
C17_Witness ==
    /\ fn = "_parse_combined_response"
    /\ args.response = << VARIANTS_UPPER >>
    /\ args.original_prompt = << MidWords >>
    /\ ret = Returned([ improved |-> << MidWords >>, variants |-> <<>> ])

\* The response holds none of the markers of the improved version.
NoImprovedMarker(response) == \A k \in 1..Len(markers) : ~Contains(response, markers[k])

\* No line of the response is longer than 20 characters.
NoLongLine(response) ==
    LET lines == split(response, NL)
    IN  \A i \in 1..Len(lines) : TextLen(lines[i]) <= 20

\* C18 as stated: when the response contains none of the improved-version
\* markers and has no line longer than 20 characters,
\* _extract_improved_prompt returns the original prompt unchanged.
C18_ReturnsOriginal ==
    (fn = "_extract_improved_prompt" /\ args.response_type = "str"
        /\ NoImprovedMarker(args.response) /\ NoLongLine(args.response)) =>
        ret = Returned(args.original_prompt)

\* C18, amended: when the response contains none of the improved-version
\* markers and has no line longer than 20 characters,
\* _extract_improved_prompt returns the whole trimmed response if it is
\* longer than 10 characters and differs from the original prompt, and the
\* original prompt unchanged otherwise.
C18_ReturnsResponseOrOriginal ==
    (fn = "_extract_improved_prompt" /\ args.response_type = "str"
        /\ NoImprovedMarker(args.response) /\ NoLongLine(args.response)) =>
        ret = Returned(IF TextLen(strip(args.response)) > 10 /\ strip(args.response) # args.original_prompt
                       THEN strip(args.response)
                       ELSE args.original_prompt)

\* Two short lines without a marker, 17 characters together: the response
\* comes back, not the original prompt.
C18_Witness ==
    /\ fn = "_extract_improved_prompt"
    /\ args.response = << "Foo.", NL, MidWords >>
    /\ args.original_prompt = << MidWords >>
    /\ ret = Returned(<< "Foo.", NL, MidWords >>)

\* The texts as a list of variants.
AsVariants(texts) == [ k \in 1..Len(texts) |-> << texts[k] >> ]

\* A text longer than 5 characters.
LongerThan5(text) == TextLen(text) > 5

\* The response starts as the well-formed responses with this improved text
\* do: the marker, the text, an empty line, the variants marker.
StartsWellFormed(response, improved) ==
    /\ Len(response) >= 7
    /\ SubSeq(response, 1, 7) = << IMPROVED_UPPER, NL, improved, NL, NL, VARIANTS_UPPER, NL >>

\* C19 as stated: a well-formed combined response parses to improved = the
\* trimmed text between the two markers and variants = the texts of the
\* numbered lines in order, also when those texts are short.
C19_NumberedTextsAreVariants ==
    (fn = "_parse_combined_response" /\ args.response_type = "str") =>
        \A improved \in ImprovedTexts, texts \in NumberedLists :
            (StartsWellFormed(args.response, improved)
                /\ args.response = WellFormed(improved, texts) /\ Len(texts) <= 3) =>
                ret = Returned([ improved |-> << improved >>, variants |-> AsVariants(texts) ])

\* C19 with the threshold of the variant pattern (a text of 5 characters or
\* fewer is not a variant): the variants are exactly the texts longer than 5
\* characters of the numbered lines, in order, the first three of them.
C19_ExactlyLongNumberedTexts ==
    (fn = "_parse_combined_response" /\ args.response_type = "str") =>
        \A improved \in ImprovedTexts, texts \in NumberedLists :
            (StartsWellFormed(args.response, improved) /\ args.response = WellFormed(improved, texts)) =>
                ret = Returned([ improved |-> << improved >>,
                                 variants |-> Slice(SelectSeq(AsVariants(texts), LongerThan5), 3) ])

\* One long numbered text: the fallback adds its whole line as a second
\* variant.
C19_LineAsSecondVariant ==
    /\ fn = "_parse_combined_response"
    /\ args.response = WellFormed("Foo.", << MidWords >>)
    /\ ret = Returned([ improved |-> << "Foo." >>,
                        variants |-> << << MidWords >>, << "1.", SP, MidWords >> >> ])

\* What holds of a well-formed combined response: improved is the trimmed
\* text between the two markers; the list of variants starts with the texts
\* longer than 5 characters of the numbered lines, in order and at most three,
\* it is exactly the first three of them when there are three or more, and a
\* text of 5 characters or fewer is never a variant.
C19_LongNumberedTextsAreVariants ==
    (fn = "_parse_combined_response" /\ args.response_type = "str") =>
        \A improved \in ImprovedTexts, texts \in NumberedLists :
            (StartsWellFormed(args.response, improved) /\ args.response = WellFormed(improved, texts)) =>
                LET long == SelectSeq(AsVariants(texts), LongerThan5)
                    variants == ret.val.variants
                IN  /\ ret.exc = "none"
                    /\ ret.val.improved = << improved >>
                    /\ Len(variants) >= Len(Slice(long, 3))
                    /\ SubSeq(variants, 1, Len(Slice(long, 3))) = Slice(long, 3)
                    /\ Len(long) >= 3 => variants = Slice(long, 3)
                    /\ \A i \in 1..Len(variants) : LongerThan5(variants[i])

\* The response of the example: improved 'Foo.' and no variants.
C19_Witness ==
    /\ fn = "_parse_combined_response"
    /\ args.response = WellFormed("Foo.", << "A", "B", "C" >>)
    /\ ret = Returned([ improved |-> << "Foo." >>, variants |-> <<>> ])

\* C20: for every response and every bound that is not negative, the list
\* returned by _extract_variants has at most bound entries and none of them
\* is an empty string; the same holds for the variants of an improvement
\* result after the dialog has applied the configured bound.
C20_VariantsWithinBound ==
    (fn \in {"_extract_variants", "improve_prompt"} /\ args.response_type = "str") =>
        LET variants == IF fn = "_extract_variants" THEN ret.val ELSE ret.val.variants
        IN  /\ ret.exc = "none"
            /\ Len(variants) <= args.num_variants
            /\ \A i \in 1..Len(variants) : variants[i] # <<>> /\ TextLen(variants[i]) > 0

\* Three numbered variants and a configured bound of 2: the dialog keeps two.
C20_Witness ==
    /\ fn = "improve_prompt"
    /\ args.response = WellFormed("Foo.", << MidWords, "abcdef", MidWords >>)
    /\ args.num_variants = 2
    /\ ret.val.variants = << << MidWords >>, << "abcdef" >> >>

(* ------------------------------ C21 .. C30 ----------------------------- *)

\* A line that starts with a number and a dot and whose text is longer than
\* 5 characters.
IsLongNumbered(line) ==
    /\ line # <<>>
    /\ Head(line) \in {"1.", "2.", "3.", "4.", "5."}
    /\ TextLen(lstrip(Tail(line))) > 5

\* A numbered or bulleted line whose text is longer than 5 characters.
IsLongItem(line) ==
    /\ line # <<>>
    /\ Head(line) \in {"1.", "2.", "3.", "4.", "5.", "-", "*"}
    /\ TextLen(lstrip(Tail(line))) > 5

\* The lines of a text, stripped.
StrippedLines(text) == [ i \in 1..Len(split(text, NL)) |-> strip(split(text, NL)[i]) ]

\* The texts of the lines, without their prefix.
ItemTexts(lines) == [ i \in 1..Len(lines) |-> lstrip(Tail(lines[i])) ]

\* The part of the response that is searched for variants: the text between
\* the first variants marker and the next one, or the whole response.
SearchedPart(response) ==
    LET whole == strip(response)
        marker == IF Contains(whole, VARIANTS_UPPER) THEN VARIANTS_UPPER ELSE VARIANTS_MIXED
    IN  IF ~Contains(whole, marker) THEN whole
        ELSE LET rest == SubSeq(whole, Find(whole, marker) + 1, Len(whole))
             IN  IF Contains(rest, marker) THEN strip(SubSeq(rest, 1, Find(rest, marker) - 1))
                 ELSE strip(rest)

C22_NoneOnFailure ==
    (fn \in {"improve_prompt", "adapt_for_model_type"} /\ raised.exc # "none") =>
        ret = ReturnedNone

\* The finished signals that a request of the model emits when its first
\* attempt ends in an error.
FailureSignals ==
    { Finished(model_list[1],
               OutcomeText(send_request_except(create_api_client(model_list[1].api_url), r.exc, r.err))) :
        r \in { x \in { _make_request_step(resp, 0, 1, NoneVal) : resp \in server } : x.ctl = "raise" } }

\* C23: every dispatch outcome tells its consumer whether it is an error:
\* the signal emitted for a successful answer is never the signal emitted
\* for a failed request, also when the answer text is the text of an error.
C23_OutcomeTellsError ==
    (pc = "done" /\ raised.exc = "none" /\ ~raised.isnone) =>
        events[1] \notin FailureSignals

\* The message the claim expects for a body of an error status: error.message,
\* else the top-level message, else the first 200 characters of the raw body,
\* with the status in front unless the message holds it.
ExpectedErrorText(resp) ==
    LET message == IF resp.body.json \in {"error_obj", "error_null", "message"}
                   THEN resp.body.msg
                   ELSE Truncate(resp.body, 200)
    IN  IF resp.body.json \in {"error_obj", "error_null", "message"}
           /\ Contains(message, StrOf(resp.status))
        THEN message
        ELSE << "(", StrOf(resp.status), ") " >> \o message

\* A response of a status other than 200, 401 and 429 whose body is not HTML.
IsJsonErrorResponse(r) == r.exc = "none" /\ r.status \notin {200, 401, 429} /\ ~r.body.html

\* C24: for a status other than 200, 401 and 429 with a body that is not
\* HTML the call ends on that attempt with the message taken from
\* error.message, else from the top-level message, else from the first 200
\* characters of the raw body, and the error always carries the status code.
C24_JsonErrorMessage ==
    \A i \in 1..Len(resps) :
        IsJsonErrorResponse(resps[i]) =>
            /\ EndsCall(i)
            /\ raised = Raised("APIError", ExpectedErrorText(resps[i]))

\* What holds: the same for the bodies that carry a message text or are not
\* a JSON object.
C24_TextMessages ==
    \A i \in 1..Len(resps) :
        (IsJsonErrorResponse(resps[i])
            /\ resps[i].body.json \in {"error_obj", "message", "invalid", "list", "number"}) =>
            /\ EndsCall(i)
            /\ raised = Raised("APIError", ExpectedErrorText(resps[i]))

\* C25: the list returned by _extract_variants never holds the same variant
\* twice: no two entries are equal, and no entry is a numbered or bulleted
\* line whose text is another entry.
C25_NoVariantTwice ==
    (fn = "_extract_variants" /\ args.response_type = "str" /\ ret.exc = "none") =>
        \A i, j \in 1..Len(ret.val) :
            i # j =>
                /\ ret.val[i] # ret.val[j]
                /\ ~(IsLongItem(ret.val[j]) /\ lstrip(Tail(ret.val[j])) = ret.val[i])

\* The fallback added the line of a variant that a pattern had taken.
C25_LineAddedAgain ==
    /\ fn = "_extract_variants"
    /\ args.response = << "2.", SP, MidWords >>
    /\ args.num_variants = 3
    /\ ret = Returned(<< << MidWords >>, << "2.", SP, MidWords >> >>)

\* C26: on the same response and original prompt the improved field of
\* _parse_combined_response equals the result of _extract_improved_prompt.
C26_ImprovedFieldsAgree ==
    (fn = "_parse_combined_response" /\ args.response_type = "str" /\ ret.exc = "none") =>
        ret.val.improved = _extract_improved_prompt(args.response, args.original_prompt)

\* The number of occurrences of a piece in a text.
RECURSIVE Count(_, _)
Count(text, piece) ==
    IF text = <<>> THEN 0
    ELSE (IF Head(text) = piece THEN 1 ELSE 0) + Count(Tail(text), piece)

\* What holds: the two agree when the improved-version marker occurs at most
\* once and the improved field is not empty.
C26_AgreeOnSingleFilledSection ==
    (fn = "_parse_combined_response" /\ args.response_type = "str" /\ ret.exc = "none"
        /\ Count(args.response, IMPROVED_UPPER) <= 1 /\ ret.val.improved # <<>>) =>
        ret.val.improved = _extract_improved_prompt(args.response, args.original_prompt)

\* The marker with nothing after it: the improved field is empty, while
\* _extract_improved_prompt returns the response.
C26_EmptyImproved ==
    /\ fn = "_parse_combined_response"
    /\ args.response = << IMPROVED_UPPER >>
    /\ ret.val.improved = <<>>
    /\ _extract_improved_prompt(args.response, args.original_prompt) = << IMPROVED_UPPER >>

\* An outcome of requests.post after which the loop goes on: an exception of
\* the transport or of parsing, or status 429.
MayRetry(r) == r.exc \in {"Timeout", "ConnectionError", "ValueError"} \/ (r.exc = "none" /\ r.status = 429)

\* C27: one call of _make_request sends at most max_retries requests, sends
\* none after the first successful response or the first terminal error, and
\* with max_retries <= 0 sends none at all and fails with the exhaustion
\* error.
C27_RequestBudget ==
    /\ posts[1] = Len(resps)
    /\ posts[1] <= (IF max_retries > 0 THEN max_retries ELSE 0)
    /\ \A i \in 1..(Len(resps) - 1) : MayRetry(resps[i])
    /\ (CallEnded /\ HasKey(1) /\ resps # <<>> /\ MayRetry(resps[Len(resps)])) => Len(resps) = max_retries
    /\ (CallEnded /\ HasKey(1) /\ max_retries <= 0) =>
          /\ posts[1] = 0
          /\ raised = Raised("APIError", << "Request failed after ", StrOf(max_retries), " attempts: ", "None" >>)

\* A budget of three: a 429, then a 401 that ends the call after two
\* requests.
C27_Witness ==
    /\ CallEnded
    /\ max_retries = 3
    /\ resps = << RateLimited, Unauthorized >>
    /\ posts[1] = 2

\* The seconds slept in the call so far.
RECURSIVE TotalSleep(_)
TotalSleep(sl) == IF sl = <<>> THEN 0 ELSE Head(sl).secs + TotalSleep(Tail(sl))

\* C28: a 429 at the attempt with index k, counted over all attempts of the
\* call, is followed by a sleep of 2^k seconds, the final attempt included; a
\* call that only sees 429 sleeps 2^max_retries - 1 seconds before it fails,
\* a call that only sees timeouts sleeps max_retries - 1 seconds.
C28_SleepTotals ==
    /\ \A i \in 1..Len(resps) :
          IsRateLimit(resps[i]) => SleepsAfter(i - 1) = << [after |-> i - 1, secs |-> Pow2(i - 1)] >>
    /\ (CallEnded /\ resps # <<>> /\ \A i \in 1..Len(resps) : IsRateLimit(resps[i])) =>
          /\ IsExhaustedText(LatestText)
          /\ TotalSleep(sleeps) = Pow2(max_retries) - 1
    /\ (CallEnded /\ resps # <<>> /\ \A i \in 1..Len(resps) : resps[i].exc = "Timeout") =>
          /\ IsExhaustedText(LatestText)
          /\ TotalSleep(sleeps) = max_retries - 1

\* A timeout, then a 429 on the final attempt of two: 1 second, then 2.
C28_Witness ==
    /\ CallEnded
    /\ max_retries = 2
    /\ resps = << TimeoutExc, RateLimited >>
    /\ sleeps = << [after |-> 0, secs |-> 1], [after |-> 1, secs |-> 2] >>


\* The threads that have not yet emitted their last outcome.
InFlight == { w \in 1..Len(workers) : workers[w].outcomes < Len(workers[w].model_list) }

\* C29: at most one dispatch batch is in flight at any time: while a worker
\* has not yet emitted its last outcome the send button is disabled and no
\* second worker runs, whatever the user does meanwhile (loading a saved
\* prompt with saved results, clearing results, changing the active models).
C29_OneBatchInFlight ==
    /\ Cardinality(InFlight) <= 1
    /\ (InFlight # {} /\ ~crashed) => ~send_button

\* The part of C29 where the user does nothing but send prompts.
C29_UndisturbedOneBatch ==
    user_actions = Len(workers) => C29_OneBatchInFlight

\* Two threads run at once: the second was started while the first had
\* emitted one of its two outcomes.
C29_TwoInFlight ==
    /\ Len(workers) = 2 /\ InFlight = {1, 2}
    /\ workers[1].outcomes = 1 /\ Len(workers[1].model_list) = 2


\* The oldest queued signal is an outcome and this step delivers it.
DeliversOutcome ==
    /\ queue # <<>>
    /\ Head(queue).signal.sig = "finished"
    /\ queue' = Tail(queue)
    /\ Len(temp_results') = Len(temp_results) + 1

\* The outcome about to be delivered belongs to what the window shows: its
\* batch is the latest one, was sent for the text of the current prompt, and
\* the entries shown so far are the earlier outcomes of that batch.
OutcomeOfCurrentPrompt ==
    LET w == Head(queue).worker
    IN  /\ w = Len(workers)
        /\ current_prompt_id # 0
        /\ db_prompts[current_prompt_id] = workers[w].prompt
        /\ Len(temp_results) = DeliveredOutcomes(w)

\* C30: every entry of temp_results is an outcome of the batch sent for the
\* prompt identified by current_prompt_id (or a saved result of it): an
\* outcome of a running batch is never appended after the results were
\* cleared, a new query was started or another prompt was loaded, so that
\* save_selected_results stores every response under the prompt whose text
\* produced it.
C30_OutcomesOfCurrentPrompt ==
    [][DeliversOutcome => OutcomeOfCurrentPrompt]_vars

\* The only batch was sent for the new prompt, and an outcome of it is stored
\* as a result of the prompt saved before, which had a result of the first
\* model only.
C30_StoredUnderOtherPrompt ==
    /\ Len(workers) = 1 /\ workers[1].prompt = "new prompt"
    /\ db_prompts[1] = "saved prompt"
    /\ \E i \in 1..Len(db_results) :
         db_results[i].prompt_id = 1 /\ db_results[i].model_id = 2

\* The part of C30 where the user does nothing but type and send prompts: a
\* delivered outcome belongs to the latest batch and joins the earlier
\* outcomes of that batch (the prompt id is the one of the first text sent).
C30_UndisturbedOutcomes ==
    [][(user_actions = Len(workers) /\ DeliversOutcome) =>
          /\ Head(queue).worker = Len(workers)
          /\ current_prompt_id # 0
          /\ Len(temp_results) = DeliveredOutcomes(Len(workers))]_vars

====
